---- MODULE Spec2Model ----
(***************************************************************************)
(* A model of go-money's transaction extractor                             *)
(* (src/internal/extractor/extractor.go).                                  *)
(*                                                                         *)
(* A Go string is modelled as a sequence of runes, each rune a one-rune    *)
(* TLA+ string.  The regular expressions of the source are transcribed as  *)
(* data and run by a backtracking matcher with Go's leftmost-first         *)
(* semantics, so that which text a pattern captures is computed and not    *)
(* assumed.  Amounts are kept in hundredths (every numeric pattern of the  *)
(* source admits at most two decimals), so float64 comparisons between     *)
(* them are exact.                                                         *)
(***************************************************************************)
EXTENDS Integers, Sequences, FiniteSets, TLC

VARIABLES
    login,         \* requestNewToken: the callback server, its requests and the outcome
    calc,          \* gm calculate: its flags, the mailbox, the query loop and the summary
    split,         \* the batch A ++ B and where it is cut into A and B
    load,          \* NewTransactionExtractor: the state of the file and the outcome
    handed,        \* what the latest GetServiceByID or GetAllServices call returned
    catalogFile,   \* the service entries of tracker-mails.json, in file order
    tracker,       \* TransactionExtractor.tracker.Services: id -> Service
    messages,      \* the message batch handed to ExtractTransactions
    idx,           \* ExtractTransactions: the message the loop is at, 0 outside a call
    transactions,  \* ExtractTransactions: the transactions appended so far
    runs,          \* the results of the ExtractTransactions calls made so far
    clock,         \* the wall clock, time.Now()
    text,          \* amount parser: the text handed to extractAmountWithCurrency
    parsed,        \* amount parser: its result, <<>> before it has run
    dateBody,      \* date recoverer: the body handed to extractTransactionDate
    dateSubject,   \* date recoverer: the subject
    recovered      \* date recoverer: its result, <<>> before it has run

vars == <<login, calc, split, load, handed, catalogFile, tracker, messages, idx, transactions, runs, clock,
          text, parsed, dateBody, dateSubject, recovered>>

(***************************************************************************)
(* Runes and strings                                                       *)
(***************************************************************************)
Digit == {"0", "1", "2", "3", "4", "5", "6", "7", "8", "9"}

LowerLetters == <<"a", "b", "c", "d", "e", "f", "g", "h", "i", "j", "k", "l", "m",
                  "n", "o", "p", "q", "r", "s", "t", "u", "v", "w", "x", "y", "z">>

UpperLetters == <<"A", "B", "C", "D", "E", "F", "G", "H", "I", "J", "K", "L", "M",
                  "N", "O", "P", "Q", "R", "S", "T", "U", "V", "W", "X", "Y", "Z">>

Letter == {LowerLetters[i] : i \in 1..26} \cup {UpperLetters[i] : i \in 1..26}

\* \s of Go's regexp syntax: [\t\n\f\r ]
Space == {" ", "\t", "\n", "\f", "\r"}

\* \w of Go's regexp syntax: [0-9A-Za-z_]
WordRune == Digit \cup Letter \cup {"_"}

Punct == {"$", "€", "£", "¥", ",", ".", ":", "-", "/", "@", "<", ">", "&", ";",
          "#", "\"", "'", "!"}

\* every rune a modelled text is made of
Rune == WordRune \cup Space \cup Punct

\* the letters in lower and in upper case, and every other rune as it is
LowerOf ==
    [c \in Rune |->
        IF \E i \in 1..26 : UpperLetters[i] = c
        THEN LowerLetters[CHOOSE i \in 1..26 : UpperLetters[i] = c]
        ELSE c]

UpperOf ==
    [c \in Rune |->
        IF \E i \in 1..26 : LowerLetters[i] = c
        THEN UpperLetters[CHOOSE i \in 1..26 : LowerLetters[i] = c]
        ELSE c]

ToLowerRune(c) == LowerOf[c]

ToUpperRune(c) == UpperOf[c]

\* strings.ToLower
ToLower(s) == [i \in 1..Len(s) |-> ToLowerRune(s[i])]

\* whether sub occurs in s at position i
HasAt(s, i, sub) ==
    /\ i >= 1
    /\ i + Len(sub) - 1 <= Len(s)
    /\ \A j \in 1..Len(sub) : s[i + j - 1] = sub[j]

\* strings.Contains
Contains(s, sub) == \E i \in 1..(Len(s) + 1) : HasAt(s, i, sub)

\* strings.ContainsAny
ContainsAny(s, chars) == \E i \in 1..Len(s) : s[i] \in chars

RECURSIVE ReplaceAllFrom(_, _, _, _)
ReplaceAllFrom(s, i, old, new) ==
    IF i > Len(s) THEN <<>>
    ELSE IF HasAt(s, i, old)
         THEN new \o ReplaceAllFrom(s, i + Len(old), old, new)
         ELSE <<s[i]>> \o ReplaceAllFrom(s, i + 1, old, new)

\* strings.ReplaceAll, for a non-empty old
ReplaceAll(s, old, new) == ReplaceAllFrom(s, 1, old, new)

RECURSIVE TrimLeft(_)
TrimLeft(s) ==
    IF Len(s) > 0 /\ Head(s) \in Space THEN TrimLeft(Tail(s)) ELSE s

RECURSIVE TrimRight(_)
TrimRight(s) ==
    IF Len(s) > 0 /\ s[Len(s)] \in Space
    THEN TrimRight(SubSeq(s, 1, Len(s) - 1))
    ELSE s

\* strings.TrimSpace
TrimSpace(s) == TrimRight(TrimLeft(s))

\* strings.Title: the first letter of every word in upper case
Title(s) ==
    [i \in 1..Len(s) |->
        IF i = 1 \/ s[i - 1] \notin WordRune
        THEN ToUpperRune(s[i])
        ELSE s[i]]

RECURSIVE Concat(_)
Concat(ss) == IF ss = <<>> THEN <<>> ELSE Head(ss) \o Concat(Tail(ss))

(***************************************************************************)
(* Regular expressions (package regexp): a pattern is a sequence of parts, *)
(* a part is an alternation of branches that is a capture group when cap   *)
(* is not 0, a branch is a sequence of atoms, and an atom is \b or a       *)
(* greedy repetition of a rune class.                                      *)
(***************************************************************************)
\* max < 0 stands for "no upper limit" (the quantifiers * and +)
Rep(cls, lo, hi) == [k |-> "c", cls |-> cls, min |-> lo, max |-> hi]
One(cls) == Rep(cls, 1, 1)
Opt(cls) == Rep(cls, 0, 1)
Star(cls) == Rep(cls, 0, -1)
Plus(cls) == Rep(cls, 1, -1)
WordBoundary == [k |-> "b", cls |-> {}, min |-> 0, max |-> 0]

\* a literal, case-sensitive
Lit(w) == [i \in 1..Len(w) |-> One({w[i]})]
\* a literal under the (?i) flag
LitI(w) == [i \in 1..Len(w) |-> One({ToLowerRune(w[i]), ToUpperRune(w[i])})]

Group(g, alts) == [cap |-> g, alts |-> alts]
Part(branch) == [cap |-> 0, alts |-> <<branch>>]

\* \b: exactly one side of position i is a word rune
AtWordBoundary(t, i) ==
    LET before == i > 1 /\ i - 1 <= Len(t) /\ t[i - 1] \in WordRune
        after == i >= 1 /\ i <= Len(t) /\ t[i] \in WordRune
    IN  before /= after

\* the number of runes of cls at t[i..], at most hi of them
RECURSIVE RunLen(_, _, _, _)
RunLen(t, i, cls, hi) ==
    IF hi = 0 \/ i > Len(t) \/ t[i] \notin cls THEN 0
    ELSE 1 + RunLen(t, i + 1, cls, IF hi < 0 THEN hi ELSE hi - 1)

\* The positions at which atoms k.. of a branch can end when they start at i,
\* in the order a backtracking matcher tries them (greedy: longest first).
RECURSIVE BranchEnds(_, _, _, _)
RECURSIVE RepEnds(_, _, _, _, _)
BranchEnds(br, k, t, i) ==
    IF k > Len(br) THEN <<i>>
    ELSE IF br[k].k = "b"
         THEN IF AtWordBoundary(t, i) THEN BranchEnds(br, k + 1, t, i) ELSE <<>>
         ELSE RepEnds(br, k, t, i, RunLen(t, i, br[k].cls, br[k].max))

RepEnds(br, k, t, i, n) ==
    IF n < br[k].min THEN <<>>
    ELSE BranchEnds(br, k + 1, t, i + n) \o RepEnds(br, k, t, i, n - 1)

RECURSIVE AltEnds(_, _, _, _)
AltEnds(alts, a, t, i) ==
    IF a > Len(alts) THEN <<>>
    ELSE BranchEnds(alts[a], 1, t, i) \o AltEnds(alts, a + 1, t, i)

NoMatch == [ok |-> FALSE, end |-> 0, spans |-> <<>>]

\* The first way, in backtracking order, to match parts p.. of re at position i.
RECURSIVE MatchParts(_, _, _, _)
RECURSIVE FirstOk(_, _, _, _, _, _)
MatchParts(re, p, t, i) ==
    IF p > Len(re) THEN [ok |-> TRUE, end |-> i, spans |-> <<>>]
    ELSE FirstOk(re, p, t, i, AltEnds(re[p].alts, 1, t, i), 1)

FirstOk(re, p, t, i, ends, j) ==
    IF j > Len(ends) THEN NoMatch
    ELSE LET r == MatchParts(re, p + 1, t, ends[j])
         IN  IF r.ok
             THEN [ok |-> TRUE, end |-> r.end, spans |-> <<<<i, ends[j]>>>> \o r.spans]
             ELSE FirstOk(re, p, t, i, ends, j + 1)

NumGroups(re) ==
    LET caps == {re[p].cap : p \in 1..Len(re)}
    IN  CHOOSE g \in caps : \A h \in caps : h <= g

\* One match as FindAllStringSubmatch reports it: <<whole, group 1, group 2, ..>>
Submatch(re, t, s, m) ==
    <<SubSeq(t, s, m.end - 1)>> \o
    [g \in 1..NumGroups(re) |->
        LET p == CHOOSE q \in 1..Len(re) : re[q].cap = g
        IN  SubSeq(t, m.spans[p][1], m.spans[p][2] - 1)]

\* (*Regexp).FindAllStringSubmatch(t, -1): the successive non-overlapping
\* leftmost matches.  No pattern of the source matches the empty string.
RECURSIVE FindAllFrom(_, _, _)
FindAllFrom(re, t, pos) ==
    IF pos > Len(t) THEN <<>>
    ELSE LET m == MatchParts(re, 1, t, pos)
         IN  IF m.ok /\ m.end > pos
             THEN <<[s |-> pos, e |-> m.end, sub |-> Submatch(re, t, pos, m)]>>
                  \o FindAllFrom(re, t, m.end)
             ELSE FindAllFrom(re, t, pos + 1)

FindAllStringSubmatch(re, t) ==
    LET ms == FindAllFrom(re, t, 1) IN [i \in 1..Len(ms) |-> ms[i].sub]

\* (*Regexp).FindAllString(t, -1)
FindAllString(re, t) ==
    LET ms == FindAllFrom(re, t, 1) IN [i \in 1..Len(ms) |-> ms[i].sub[1]]

\* (*Regexp).ReplaceAllString(t, repl), for a repl without $ references
RECURSIVE ReplaceMatches(_, _, _, _)
ReplaceMatches(t, ms, pos, repl) ==
    IF ms = <<>> THEN SubSeq(t, pos, Len(t))
    ELSE SubSeq(t, pos, Head(ms).s - 1) \o repl
         \o ReplaceMatches(t, Tail(ms), Head(ms).e, repl)

ReplaceAllString(re, t, repl) == ReplaceMatches(t, FindAllFrom(re, t, 1), 1, repl)

(***************************************************************************)
(* Numbers (package strconv)                                               *)
(***************************************************************************)
DigitValue(c) == CHOOSE n \in 0..9 : <<"0", "1", "2", "3", "4", "5", "6", "7", "8", "9">>[n + 1] = c

RECURSIVE NatOf(_)
NatOf(ds) ==
    IF ds = <<>> THEN 0
    ELSE NatOf(SubSeq(ds, 1, Len(ds) - 1)) * 10 + DigitValue(ds[Len(ds)])

AllDigits(s) == \A i \in 1..Len(s) : s[i] \in Digit

Unsigned(s) == IF Len(s) > 0 /\ s[1] \in {"+", "-"} THEN Tail(s) ELSE s

\* strconv.Atoi: an optional sign and one or more decimal digits
Atoi(s) ==
    LET ds == Unsigned(s)
    IN  IF Len(ds) > 0 /\ AllDigits(ds)
        THEN [ok |-> TRUE, num |-> IF Len(s) > 0 /\ s[1] = "-" THEN 0 - NatOf(ds) ELSE NatOf(ds)]
        ELSE [ok |-> FALSE, num |-> 0]

\* the position of the first "." of s, or Len(s) + 1
DotAt(s) ==
    IF \E i \in 1..Len(s) : s[i] = "."
    THEN CHOOSE i \in 1..Len(s) : s[i] = "." /\ \A j \in 1..(i - 1) : s[j] /= "."
    ELSE Len(s) + 1

\* Fault variant of ParseFloat: the decimals are dropped.
ParseFloat_whole(s) ==
    LET ds == Unsigned(s)
        d == DotAt(ds)
        int == SubSeq(ds, 1, d - 1)
        frac == SubSeq(ds, d + 1, Len(ds))
    IN  IF /\ Len(int) + Len(frac) > 0
           /\ AllDigits(int)
           /\ AllDigits(frac)
           /\ Len(frac) <= 2
        THEN [ok |-> TRUE,
              amount |-> IF Len(s) > 0 /\ s[1] = "-"
                         THEN 0 - (NatOf(int) * 100)
                         ELSE NatOf(int) * 100]
        ELSE [ok |-> FALSE, amount |-> 0]

\* strconv.ParseFloat(s, 64) on the strings the extractor hands it (digits with
\* at most one "." and at most two decimals, or letters): the value in
\* hundredths.  Exponents, hexadecimal floats, "inf" and "nan" are never among
\* them, and are reported as errors here.
ParseFloat(s) ==
    LET ds == Unsigned(s)
        d == DotAt(ds)
        int == SubSeq(ds, 1, d - 1)
        frac == SubSeq(ds, d + 1, Len(ds))
        hundredths == NatOf(SubSeq(frac \o <<"0", "0">>, 1, 2))
    IN  IF /\ Len(int) + Len(frac) > 0
           /\ AllDigits(int)
           /\ AllDigits(frac)
           /\ Len(frac) <= 2
        THEN [ok |-> TRUE,
              amount |-> IF Len(s) > 0 /\ s[1] = "-"
                         THEN 0 - (NatOf(int) * 100 + hundredths)
                         ELSE NatOf(int) * 100 + hundredths]
        ELSE [ok |-> FALSE, amount |-> 0]

\* strings.ReplaceAll(s, ",", "")
StripCommas(s) == ReplaceAll(s, <<",">>, <<>>)

\* a whole number of currency units, in hundredths
Units(n) == n * 100

(***************************************************************************)
(* The amount parser                                                       *)
(***************************************************************************)
\* \d[\d,]*\.?\d{0,2}
NumberAtoms == <<One(Digit), Star(Digit \cup {","}), Opt({"."}), Rep(Digit, 0, 2)>>
\* [\d,]+\.?\d{0,2}
LooseNumberAtoms == <<Plus(Digit \cup {","}), Opt({"."}), Rep(Digit, 0, 2)>>
\* \s*
Spaces == <<Star(Space)>>

\* the sanity check of the amount parser, in currency units
SanityBound == 1000000

\* A prefix pattern (?i)(marker|..)\s*(number) and a suffix pattern
\* (?i)(number)\s*(marker|..) of the currency table.
PrefixPattern(markers) ==
    <<Group(1, markers), Part(Spaces), Group(2, <<NumberAtoms>>)>>
SuffixPattern(markers) ==
    <<Group(1, <<NumberAtoms>>), Part(Spaces), Group(2, markers)>>

currencyPatterns ==
    << \* (\$|\$\s*)[\s]*(\d[\d,]*\.?\d{0,2})\s*(USD)?
       [pattern |-> <<Group(1, <<Lit(<<"$">>), Lit(<<"$">>) \o Spaces>>),
                      Part(Spaces),
                      Group(2, <<NumberAtoms>>),
                      Part(Spaces),
                      Group(3, <<LitI(<<"U", "S", "D">>), <<>> >>)>>,
        currency |-> "USD", symbol |-> "$"],
       \* (\d[\d,]*\.?\d{0,2})\s*(USD)
       [pattern |-> SuffixPattern(<<LitI(<<"U", "S", "D">>)>>),
        currency |-> "USD", symbol |-> "$"],
       \* (MXN|M\$|MEX|\$\s*M)\s*(\d[\d,]*\.?\d{0,2})
       [pattern |-> PrefixPattern(<<LitI(<<"M", "X", "N">>),
                                    LitI(<<"M", "$">>),
                                    LitI(<<"M", "E", "X">>),
                                    Lit(<<"$">>) \o Spaces \o LitI(<<"M">>)>>),
        currency |-> "MXN", symbol |-> "$"],
       \* (\d[\d,]*\.?\d{0,2})\s*(MXN|M\$|MEX)
       [pattern |-> SuffixPattern(<<LitI(<<"M", "X", "N">>),
                                    LitI(<<"M", "$">>),
                                    LitI(<<"M", "E", "X">>)>>),
        currency |-> "MXN", symbol |-> "$"],
       \* (€)\s*(\d[\d,]*\.?\d{0,2})
       [pattern |-> PrefixPattern(<<Lit(<<"€">>)>>),
        currency |-> "EUR", symbol |-> "€"],
       \* (\d[\d,]*\.?\d{0,2})\s*(EUR|€)
       [pattern |-> SuffixPattern(<<LitI(<<"E", "U", "R">>), Lit(<<"€">>)>>),
        currency |-> "EUR", symbol |-> "€"],
       \* (£)\s*(\d[\d,]*\.?\d{0,2})
       [pattern |-> PrefixPattern(<<Lit(<<"£">>)>>),
        currency |-> "GBP", symbol |-> "£"],
       \* (\d[\d,]*\.?\d{0,2})\s*(GBP|£)
       [pattern |-> SuffixPattern(<<LitI(<<"G", "B", "P">>), Lit(<<"£">>)>>),
        currency |-> "GBP", symbol |-> "£"],
       \* (¥|JPY)\s*(\d[\d,]*\.?\d{0,2})
       [pattern |-> PrefixPattern(<<Lit(<<"¥">>), LitI(<<"J", "P", "Y">>)>>),
        currency |-> "JPY", symbol |-> "¥"],
       \* (\d[\d,]*\.?\d{0,2})\s*(JPY|¥)
       [pattern |-> SuffixPattern(<<LitI(<<"J", "P", "Y">>), Lit(<<"¥">>)>>),
        currency |-> "JPY", symbol |-> "¥"],
       \* (CAD|\$\s*C)\s*(\d[\d,]*\.?\d{0,2})
       [pattern |-> PrefixPattern(<<LitI(<<"C", "A", "D">>),
                                    Lit(<<"$">>) \o Spaces \o LitI(<<"C">>)>>),
        currency |-> "CAD", symbol |-> "$"],
       \* (\d[\d,]*\.?\d{0,2})\s*(CAD)
       [pattern |-> SuffixPattern(<<LitI(<<"C", "A", "D">>)>>),
        currency |-> "CAD", symbol |-> "$"] >>

\* Whether a capture group is taken for the number (lines 201-202): it is not
\* empty, holds no currency sign, and strconv.Atoi reads it, commas removed,
\* as a positive integer.
IsNumberGroup(g) ==
    /\ g /= <<>>
    /\ ~ContainsAny(g, {"$", "€", "£", "¥"})
    /\ Atoi(StripCommas(g)).ok
    /\ Atoi(StripCommas(g)).num > 0

\* Lines 195-208: the capture group of a match taken as amountStr, searching
\* match[i] from the last group down to the first (match[0] is sub[1]).
RECURSIVE GroupFrom(_, _)
GroupFrom(sub, i) ==
    IF i < 1 THEN <<>>
    ELSE IF IsNumberGroup(sub[i + 1]) THEN sub[i + 1]
         ELSE GroupFrom(sub, i - 1)

AmountStr(sub) == IF Len(sub) >= 3 THEN GroupFrom(sub, Len(sub) - 1) ELSE <<>>

\* Whether a parsed amount replaces the running maximum of a currency pattern
\* (line 213).
Tier1Accepts(amount, maxAmount) == amount > maxAmount /\ amount < Units(SanityBound)

\* Lines 191-218: the loop over the matches of one currency pattern.
RECURSIVE ScanCurrencyMatches(_, _, _)
ScanCurrencyMatches(matches, j, best) ==
    IF j > Len(matches) THEN best
    ELSE LET f == ParseFloat(StripCommas(AmountStr(matches[j])))
         IN  ScanCurrencyMatches(matches, j + 1,
                 IF f.ok /\ Tier1Accepts(f.amount, best.maxAmount)
                 THEN [maxAmount |-> f.amount, rawAmount |-> matches[j][1]]
                 ELSE best)

\* (?i)<word>\s*:?\s*\$?\s*([\d,]+\.?\d{0,2})
FieldPattern(word) ==
    <<Part(LitI(word) \o Spaces \o <<Opt({":"})>> \o Spaces \o <<Opt({"$"})>> \o Spaces),
      Group(1, <<LooseNumberAtoms>>)>>

\* the patterns of extractAmount (lines 241-258)
patterns ==
    << \* \$\s*([\d,]+\.?\d{0,2})
       <<Part(Lit(<<"$">>) \o Spaces), Group(1, <<LooseNumberAtoms>>)>>,
       \* USD\s+([\d,]+\.?\d{0,2})
       <<Part(Lit(<<"U", "S", "D">>) \o <<Plus(Space)>>), Group(1, <<LooseNumberAtoms>>)>>,
       FieldPattern(<<"t", "o", "t", "a", "l">>),
       FieldPattern(<<"a", "m", "o", "u", "n", "t">>),
       FieldPattern(<<"c", "h", "a", "r", "g", "e">>),
       FieldPattern(<<"p", "r", "i", "c", "e">>),
       \* [\$£€]\s*([\d,]+\.?\d{0,2})
       <<Part(<<One({"$", "£", "€"})>> \o Spaces), Group(1, <<LooseNumberAtoms>>)>>,
       \* [\d,]+\.\d{2}\s*(USD|EUR|GBP)
       <<Part(<<Plus(Digit \cup {","}), One({"."}), Rep(Digit, 2, 2)>> \o Spaces),
         Group(1, <<Lit(<<"U", "S", "D">>), Lit(<<"E", "U", "R">>), Lit(<<"G", "B", "P">>)>>)>> >>

\* strings.TrimPrefix
TrimPrefix(s, prefix) ==
    IF HasAt(s, 1, prefix) THEN SubSeq(s, Len(prefix) + 1, Len(s)) ELSE s

\* Lines 267-295: the text of a match that is parsed as its amount.
CandidateText(sub) ==
    IF Len(sub) >= 2
    THEN StripCommas(sub[2])
    ELSE StripCommas(TrimSpace(
             TrimPrefix(TrimPrefix(TrimPrefix(sub[1], <<"$">>), <<"£">>), <<"€">>)))

\* Whether a parsed amount replaces the running maximum of a fallback pattern
\* (lines 275 and 290).
Tier2Accepts(amount, maxAmount) == amount > maxAmount

\* Lines 266-295: the largest amount among the matches of one pattern.
RECURSIVE MaxOfMatches(_, _, _)
MaxOfMatches(matches, j, maxAmount) ==
    IF j > Len(matches) THEN maxAmount
    ELSE LET f == ParseFloat(CandidateText(matches[j]))
         IN  MaxOfMatches(matches, j + 1,
                 IF f.ok /\ Tier2Accepts(f.amount, maxAmount) THEN f.amount ELSE maxAmount)

\* Lines 304-313: the last match of \d+\.\d{2} that parses to a positive amount.
RECURSIVE LastPositive(_, _)
LastPositive(matches, i) ==
    IF i < 1 THEN 0
    ELSE LET f == ParseFloat(matches[i])
         IN  IF f.ok /\ f.amount > 0 THEN f.amount ELSE LastPositive(matches, i - 1)

\* Lines 316-331: the largest match of [\d,]+\.?\d{0,2} under the sanity bound.
RECURSIVE LargestNumber(_, _, _)
LargestNumber(matches, j, maxAmount) ==
    IF j > Len(matches) THEN maxAmount
    ELSE LET f == ParseFloat(StripCommas(matches[j]))
         IN  LargestNumber(matches, j + 1,
                 IF f.ok /\ f.amount > maxAmount /\ f.amount < Units(SanityBound)
                 THEN f.amount ELSE maxAmount)

\* Lines 302-333: what extractAmount returns when no pattern gave an amount.
AnyNumber(t) ==
    LET last == LET ms == FindAllString(<<Part(<<Plus(Digit), One({"."}), Rep(Digit, 2, 2)>>)>>, t)
                IN  LastPositive(ms, Len(ms))
    IN  IF last > 0 THEN last
        ELSE LargestNumber(FindAllString(<<Part(LooseNumberAtoms)>>, t), 1, 0)

\* Lines 261-300: the loop over the patterns, from pattern p on.
RECURSIVE TryPatterns(_, _)
TryPatterns(t, p) ==
    IF p > Len(patterns) THEN AnyNumber(t)
    ELSE LET maxAmount == MaxOfMatches(FindAllStringSubmatch(patterns[p], t), 1, 0)
         IN  IF maxAmount > 0 THEN maxAmount ELSE TryPatterns(t, p + 1)

\* extractAmount (lines 235-334): the amount in hundredths
extractAmount(t) == IF t = <<>> THEN 0 ELSE TryPatterns(t, 1)

\* Fault variant of NoAmount: no currency is named when there is no amount.
NoAmount_blank == [amount |-> 0, currency |-> "", symbol |-> "", raw |-> <<>>]

\* lines 163 and 231: return 0, "USD", "$", ""
NoAmount == [amount |-> 0, currency |-> "USD", symbol |-> "$", raw |-> <<>>]

\* Lines 187-232: the loop over the currency patterns, from pattern p on, and
\* the fallback to extractAmount.
RECURSIVE TryCurrencyPatterns(_, _)
TryCurrencyPatterns(t, p) ==
    IF p > Len(currencyPatterns)
    THEN LET amount == extractAmount(t)
         IN  IF amount > 0
             THEN [amount |-> amount, currency |-> "USD", symbol |-> "$", raw |-> <<>>]
             ELSE NoAmount
    ELSE LET cp == currencyPatterns[p]
             best == ScanCurrencyMatches(FindAllStringSubmatch(cp.pattern, t), 1,
                                         [maxAmount |-> 0, rawAmount |-> <<>>])
         IN  IF best.maxAmount > 0
             THEN [amount |-> best.maxAmount, currency |-> cp.currency,
                   symbol |-> cp.symbol, raw |-> best.rawAmount]
             ELSE TryCurrencyPatterns(t, p + 1)

\* extractAmountWithCurrency (lines 161-232): amount in hundredths, currency
\* code, currency symbol, and the raw matched text
extractAmountWithCurrency(t) == IF t = <<>> THEN NoAmount ELSE TryCurrencyPatterns(t, 1)

(***************************************************************************)
(* Times (package time).  A time is a calendar date and the seconds since  *)
(* midnight, UTC.                                                          *)
(***************************************************************************)
Date(y, m, d) == [year |-> y, month |-> m, day |-> d, sec |-> 0]

\* time.Time{}: January 1, year 1, 00:00:00 UTC
ZeroTime == Date(1, 1, 1)

\* Time.IsZero
IsZero(t) == t = ZeroTime

isLeap(y) == y % 4 = 0 /\ (y % 100 /= 0 \/ y % 400 = 0)

daysIn(m, y) ==
    IF m = 2 THEN (IF isLeap(y) THEN 29 ELSE 28)
    ELSE IF m \in {4, 6, 9, 11} THEN 30 ELSE 31

\* the month names that the layout element "January" reads
longMonthNames ==
    <<<<"J", "a", "n", "u", "a", "r", "y">>,
       <<"F", "e", "b", "r", "u", "a", "r", "y">>,
       <<"M", "a", "r", "c", "h">>,
       <<"A", "p", "r", "i", "l">>,
       <<"M", "a", "y">>,
       <<"J", "u", "n", "e">>,
       <<"J", "u", "l", "y">>,
       <<"A", "u", "g", "u", "s", "t">>,
       <<"S", "e", "p", "t", "e", "m", "b", "e", "r">>,
       <<"O", "c", "t", "o", "b", "e", "r">>,
       <<"N", "o", "v", "e", "m", "b", "e", "r">>,
       <<"D", "e", "c", "e", "m", "b", "e", "r">>>>

\* whether value starts with name, letters compared without case (time.match)
HasPrefixFold(value, name) ==
    /\ Len(value) >= Len(name)
    /\ \A i \in 1..Len(name) : ToLowerRune(value[i]) = ToLowerRune(name[i])

\* time.lookup(longMonthNames, value): the month number, or 0
LookupLongMonth(value) ==
    IF \E m \in 1..12 : HasPrefixFold(value, longMonthNames[m])
    THEN CHOOSE m \in 1..12 :
             /\ HasPrefixFold(value, longMonthNames[m])
             /\ \A n \in 1..(m - 1) : ~HasPrefixFold(value, longMonthNames[n])
    ELSE 0

\* time.cutspace
RECURSIVE CutSpace(_)
CutSpace(s) == IF Len(s) > 0 /\ Head(s) = " " THEN CutSpace(Tail(s)) ELSE s

\* time.skip, for the one-rune literals of the layouts used: the value with
\* the literal removed, a space standing for a run of spaces
Skip(value, lit) ==
    IF lit = " "
    THEN IF Len(value) > 0 /\ Head(value) /= " "
         THEN [ok |-> FALSE, rest |-> value]
         ELSE [ok |-> TRUE, rest |-> CutSpace(value)]
    ELSE IF Len(value) = 0 \/ Head(value) /= lit
         THEN [ok |-> FALSE, rest |-> value]
         ELSE [ok |-> TRUE, rest |-> Tail(value)]

\* time.getnum(value, fixed = true): exactly two digits
TwoDigits(value) == Len(value) >= 2 /\ value[1] \in Digit /\ value[2] \in Digit

BadTime == [ok |-> FALSE, rest |-> <<>>, year |-> 0, month |-> 0, day |-> 0]

\* One element of a layout read from the value held in st.rest: "2006" is a
\* four-digit year, "01" a two-digit month, "02" a two-digit day, "January" a
\* full month name, anything else a literal.
ParseElement(el, st) ==
    LET v == st.rest
    IN  IF el = "2006"
        THEN IF Len(v) >= 4 /\ AllDigits(SubSeq(v, 1, 4))
             THEN [st EXCEPT !.rest = SubSeq(v, 5, Len(v)), !.year = NatOf(SubSeq(v, 1, 4))]
             ELSE BadTime
        ELSE IF el = "01"
        THEN IF TwoDigits(v) /\ NatOf(SubSeq(v, 1, 2)) \in 1..12
             THEN [st EXCEPT !.rest = SubSeq(v, 3, Len(v)), !.month = NatOf(SubSeq(v, 1, 2))]
             ELSE BadTime
        ELSE IF el = "02"
        THEN IF TwoDigits(v)
             THEN [st EXCEPT !.rest = SubSeq(v, 3, Len(v)), !.day = NatOf(SubSeq(v, 1, 2))]
             ELSE BadTime
        ELSE IF el = "January"
        THEN LET m == LookupLongMonth(v)
             IN  IF m > 0
                 THEN [st EXCEPT !.rest = SubSeq(v, Len(longMonthNames[m]) + 1, Len(v)),
                                 !.month = m]
                 ELSE BadTime
        ELSE LET r == Skip(v, el)
             IN  IF r.ok THEN [st EXCEPT !.rest = r.rest] ELSE BadTime

RECURSIVE ParseElements(_, _, _)
ParseElements(layout, k, st) ==
    IF ~st.ok \/ k > Len(layout) THEN st
    ELSE ParseElements(layout, k + 1, ParseElement(layout[k], st))

\* time.Parse(layout, value), the layout given as its elements: all of the
\* value must be read and the day must exist in the month
ParseTime(layout, value) ==
    LET st == ParseElements(layout, 1,
                  [ok |-> TRUE, rest |-> value, year |-> 0, month |-> 0, day |-> 0])
    IN  IF st.ok /\ st.rest = <<>> /\ st.day >= 1 /\ st.day <= daysIn(st.month, st.year)
        THEN [ok |-> TRUE, t |-> Date(st.year, st.month, st.day)]
        ELSE [ok |-> FALSE, t |-> ZeroTime]

(***************************************************************************)
(* The date recoverer                                                      *)
(***************************************************************************)
\* cleanHTMLTags (lines 337-356)
cleanHTMLTags(t) ==
    LET untagged == ReplaceAllString(
                        <<Part(<<One({"<"}), Star(Rune \ {">"}), One({">"})>>)>>, t, <<" ">>)
        e1 == ReplaceAll(untagged, <<"&", "n", "b", "s", "p", ";">>, <<" ">>)
        e2 == ReplaceAll(e1, <<"&", "a", "m", "p", ";">>, <<"&">>)
        e3 == ReplaceAll(e2, <<"&", "l", "t", ";">>, <<"<">>)
        e4 == ReplaceAll(e3, <<"&", "g", "t", ";">>, <<">">>)
        e5 == ReplaceAll(e4, <<"&", "q", "u", "o", "t", ";">>, <<"\"">>)
        e6 == ReplaceAll(e5, <<"&", "#", "3", "9", ";">>, <<"'">>)
        e7 == ReplaceAll(e6, <<"&", "a", "p", "o", "s", ";">>, <<"'">>)
    IN  TrimSpace(ReplaceAllString(<<Part(<<Plus(Space)>>)>>, e7, <<" ">>))

\* jan|january|feb|february|...|dec|december
MonthNames ==
    <<<<"j", "a", "n">>,
       <<"j", "a", "n", "u", "a", "r", "y">>,
       <<"f", "e", "b">>,
       <<"f", "e", "b", "r", "u", "a", "r", "y">>,
       <<"m", "a", "r">>,
       <<"m", "a", "r", "c", "h">>,
       <<"a", "p", "r">>,
       <<"a", "p", "r", "i", "l">>,
       <<"m", "a", "y">>,
       <<"j", "u", "n">>,
       <<"j", "u", "n", "e">>,
       <<"j", "u", "l">>,
       <<"j", "u", "l", "y">>,
       <<"a", "u", "g">>,
       <<"a", "u", "g", "u", "s", "t">>,
       <<"s", "e", "p">>,
       <<"s", "e", "p", "t", "e", "m", "b", "e", "r">>,
       <<"o", "c", "t">>,
       <<"o", "c", "t", "o", "b", "e", "r">>,
       <<"n", "o", "v">>,
       <<"n", "o", "v", "e", "m", "b", "e", "r">>,
       <<"d", "e", "c">>,
       <<"d", "e", "c", "e", "m", "b", "e", "r">>>>

\* the alternation of the month names, under (?i)
MonthAlts == [i \in 1..Len(MonthNames) |-> LitI(MonthNames[i])]

\* \d{1,2} and \d{4}
DayAtoms == <<Rep(Digit, 1, 2)>>
YearAtoms == <<Rep(Digit, 4, 4)>>

\* datePatterns (lines 366-377): the pattern and the layout of each family
datePatterns ==
    << \* \b(\d{4})-(\d{2})-(\d{2})\b
       [pattern |-> <<Part(<<WordBoundary>>), Group(1, <<YearAtoms>>), Part(Lit(<<"-">>)),
                      Group(2, <<<<Rep(Digit, 2, 2)>>>>), Part(Lit(<<"-">>)),
                      Group(3, <<<<Rep(Digit, 2, 2)>>>>), Part(<<WordBoundary>>)>>,
        format |-> <<"2006", "-", "01", "-", "02">>],
       \* \b(\d{1,2})/(\d{1,2})/(\d{4})\b
       [pattern |-> <<Part(<<WordBoundary>>), Group(1, <<DayAtoms>>), Part(Lit(<<"/">>)),
                      Group(2, <<DayAtoms>>), Part(Lit(<<"/">>)),
                      Group(3, <<YearAtoms>>), Part(<<WordBoundary>>)>>,
        format |-> <<"01", "/", "02", "/", "2006">>],
       \* \b(jan|..|december)\s+(\d{1,2}),?\s+(\d{4})\b
       [pattern |-> <<Part(<<WordBoundary>>), Group(1, MonthAlts), Part(<<Plus(Space)>>),
                      Group(2, <<DayAtoms>>), Part(<<Opt({","}), Plus(Space)>>),
                      Group(3, <<YearAtoms>>), Part(<<WordBoundary>>)>>,
        format |-> <<"January", " ", "02", " ", "2006">>],
       \* \b(\d{1,2})\s+(jan|..|december)\s+(\d{4})\b
       [pattern |-> <<Part(<<WordBoundary>>), Group(1, <<DayAtoms>>), Part(<<Plus(Space)>>),
                      Group(2, MonthAlts), Part(<<Plus(Space)>>),
                      Group(3, <<YearAtoms>>), Part(<<WordBoundary>>)>>,
        format |-> <<"02", " ", "January", " ", "2006">>] >>

\* (?i)\b(jan|..|december)\s+(\d{1,2})\b
monthDayPattern ==
    <<Part(<<WordBoundary>>), Group(1, MonthAlts), Part(<<Plus(Space)>>),
      Group(2, <<DayAtoms>>), Part(<<WordBoundary>>)>>

\* Lines 386-398: the date string rebuilt from the groups of the last match
\* (sub[1] is lastMatch[0]); ok is FALSE where the code says continue.
DateStr(sub) ==
    IF Len(sub) >= 4 /\ Contains(sub[1], <<",">>)
    THEN [ok |-> TRUE, str |-> Title(sub[2]) \o <<" ">> \o sub[3] \o <<" ">> \o sub[4]]
    ELSE IF Len(sub) >= 4
    THEN [ok |-> TRUE, str |-> sub[2] \o <<" ">> \o Title(sub[3]) \o <<" ">> \o sub[4]]
    ELSE IF Len(sub) >= 3
    THEN [ok |-> TRUE, str |-> sub[2] \o <<"-">> \o sub[3] \o <<"-">> \o sub[4]]
    ELSE [ok |-> FALSE, str |-> <<>>]

\* the year as fmt.Sprintf("%d", year) prints it
RECURSIVE Digits(_)
Digits(n) ==
    IF n < 10 THEN <<<<"0", "1", "2", "3", "4", "5", "6", "7", "8", "9">>[n + 1]>>
    ELSE Digits(n \div 10) \o Digits(n % 10)

\* Lines 407-422: the month-and-day pattern, read in the year of today
MonthDayDate(fullText, today) ==
    LET matches == FindAllStringSubmatch(monthDayPattern, fullText)
    IN  IF Len(matches) > 0
        THEN LET lastMatch == matches[Len(matches)]
                 dateStr == Title(lastMatch[2]) \o <<" ">> \o lastMatch[3] \o <<" ">>
                            \o Digits(today.year)
                 p == ParseTime(<<"January", " ", "02", " ", "2006">>, dateStr)
             IN  IF p.ok THEN p.t ELSE ZeroTime
        ELSE ZeroTime

\* Lines 379-405: the loop over the date patterns, from family k on
RECURSIVE TryDatePatterns(_, _, _)
TryDatePatterns(fullText, k, today) ==
    IF k > Len(datePatterns) THEN MonthDayDate(fullText, today)
    ELSE LET matches == FindAllStringSubmatch(datePatterns[k].pattern, fullText)
         IN  IF Len(matches) > 0
             THEN LET d == DateStr(matches[Len(matches)])
                      p == ParseTime(datePatterns[k].format, d.str)
                  IN  IF d.ok /\ p.ok THEN p.t
                      ELSE TryDatePatterns(fullText, k + 1, today)
             ELSE TryDatePatterns(fullText, k + 1, today)

\* lines 361-363
FullText(body, subject) == ToLower(cleanHTMLTags(body) \o <<" ">> \o subject)

\* extractTransactionDate (lines 359-423); today is time.Now()
extractTransactionDate(body, subject, today) ==
    TryDatePatterns(FullText(body, subject), 1, today)

(***************************************************************************)
(* The service catalog and the extractor.  A Service is                    *)
(* [ID, Name, Category, EmailDomains, Keywords]; ID, Name and Category are *)
(* only copied and compared, and are kept as plain strings.  The fields    *)
(* TransactionTypes and PricePattern are read by no code and are left out. *)
(***************************************************************************)
\* Lines 68-74: the entries of the file put into a map keyed by ID, from entry k on
RECURSIVE LoadServices(_, _, _)
LoadServices(entries, k, services) ==
    IF k > Len(entries) THEN services
    ELSE LoadServices(entries, k + 1,
             [id \in DOMAIN services \cup {entries[k].ID} |->
                 IF id = entries[k].ID THEN entries[k] ELSE services[id]])

\* loadServiceTracker (lines 53-77), for a file that is read and parsed
loadServiceTracker(entries) == LoadServices(entries, 1, [id \in {} |-> id])

\* the orders in which a range over the map can visit its keys
MapOrders(services) ==
    LET n == Cardinality(DOMAIN services)
    IN  {o \in [1..n -> DOMAIN services] : \A i, j \in 1..n : o[i] = o[j] => i = j}

\* line 140, for one service; sender is the lower-cased sender
MatchesByDomain(service, sender) ==
    \E d \in 1..Len(service.EmailDomains) :
        Contains(sender, ToLower(service.EmailDomains[d]))

\* line 150, for one service; body is the lower-cased body and subject
MatchesByKeyword(service, body) ==
    \E k \in 1..Len(service.Keywords) :
        Contains(body, ToLower(service.Keywords[k]))

\* lines 138-145: the first service, in the order the map is visited, of
\* which a domain matches; <<>> when the loop ends without one
RECURSIVE FirstByDomain(_, _, _, _)
FirstByDomain(services, order, i, sender) ==
    IF i > Len(order) THEN <<>>
    ELSE IF MatchesByDomain(services[order[i]], sender) THEN <<services[order[i]]>>
         ELSE FirstByDomain(services, order, i + 1, sender)

\* lines 148-155: the same for the keywords
RECURSIVE FirstByKeyword(_, _, _, _)
FirstByKeyword(services, order, i, body) ==
    IF i > Len(order) THEN <<>>
    ELSE IF MatchesByKeyword(services[order[i]], body) THEN <<services[order[i]]>>
         ELSE FirstByKeyword(services, order, i + 1, body)

\* Fault variant of matchService: one loop over the services, in which a
\* domain or a keyword decides.
RECURSIVE FirstByEither(_, _, _, _, _)
FirstByEither(services, order, i, sender, body) ==
    IF i > Len(order) THEN <<>>
    ELSE IF \/ MatchesByDomain(services[order[i]], sender)
            \/ MatchesByKeyword(services[order[i]], body)
         THEN <<services[order[i]]>>
         ELSE FirstByEither(services, order, i + 1, sender, body)

matchService_oneLoop(services, msg, domainOrder, keywordOrder) ==
    FirstByEither(services, domainOrder, 1,
                  ToLower(msg.From), ToLower(msg.Body \o <<" ">> \o msg.Subject))

\* Fault variant of matchService: the domains are looked up in the body.
matchService_domainInBody(services, msg, domainOrder, keywordOrder) ==
    LET body == ToLower(msg.Body \o <<" ">> \o msg.Subject)
        byDomain == FirstByDomain(services, domainOrder, 1, body)
    IN  IF byDomain /= <<>> THEN byDomain
        ELSE FirstByKeyword(services, keywordOrder, 1, body)

\* Fault variant of matchService: the keyword loop runs before the domain loop.
matchService_keywordFirst(services, msg, domainOrder, keywordOrder) ==
    LET sender == ToLower(msg.From)
        body == ToLower(msg.Body \o <<" ">> \o msg.Subject)
        byKeyword == FirstByKeyword(services, keywordOrder, 1, body)
    IN  IF byKeyword /= <<>> THEN byKeyword
        ELSE FirstByDomain(services, domainOrder, 1, sender)

\* Fault variant of matchService: the keywords are looked up in the body
\* alone, without the subject.
matchService_bodyOnly(services, msg, domainOrder, keywordOrder) ==
    LET sender == ToLower(msg.From)
        byDomain == FirstByDomain(services, domainOrder, 1, sender)
    IN  IF byDomain /= <<>> THEN byDomain
        ELSE FirstByKeyword(services, keywordOrder, 1, ToLower(msg.Body))

\* matchService (lines 133-158): <<>> is nil.  Each of the two loops ranges
\* over the map in an order of its own.
matchService(services, msg, domainOrder, keywordOrder) ==
    LET sender == ToLower(msg.From)
        body == ToLower(msg.Body \o <<" ">> \o msg.Subject)
        byDomain == FirstByDomain(services, domainOrder, 1, sender)
    IN  IF byDomain /= <<>> THEN byDomain
        ELSE FirstByKeyword(services, keywordOrder, 1, body)

\* Fault variant of NoPositiveAmount: an amount of zero is let through.
NoPositiveAmount_strict(amount) == amount < 0

\* line 102: the message is dropped
NoPositiveAmount(amount) == amount <= 0

\* Fault variant of TransactionDate: the recovered date is never used.
TransactionDate_received(txDate, msg) == msg.Date

\* lines 107-110: the date of the transaction
TransactionDate(txDate, msg) == IF IsZero(txDate) THEN msg.Date ELSE txDate

\* Fault variant of AmountText: the amount is looked for in the subject as well.
AmountText_withSubject(msg) == msg.Body \o <<" ">> \o msg.Subject

\* line 101: the text handed to extractAmountWithCurrency
AmountText(msg) == msg.Body

\* extractTransactionFromMessage (lines 93-130): <<>> is nil; service is what
\* te.matchService(msg) returned at line 95 and now the reading of time.Now()
extractTransactionFromMessage(msg, service, now) ==
    LET a == extractAmountWithCurrency(AmountText(msg))
    IN  IF service = <<>> THEN <<>>
        ELSE IF NoPositiveAmount(a.amount) THEN <<>>
        ELSE <<[ID |-> msg.ID,
                ServiceID |-> service[1].ID,
                ServiceName |-> service[1].Name,
                Category |-> service[1].Category,
                Amount |-> a.amount,
                Currency |-> a.currency,
                CurrencySymbol |-> a.symbol,
                Date |-> TransactionDate(
                             extractTransactionDate(msg.Body, msg.Subject, now), msg),
                Description |-> msg.Subject,
                Email |-> msg.From,
                Subject |-> msg.Subject,
                Timestamp |-> now,
                RawAmount |-> a.raw]>>

\* Fault variant of AppendTransaction: the transaction is put in front.
AppendTransaction_front(txns, txn) == txn \o txns

\* Fault variant of AppendTransaction: a message without a transaction
\* discards the transactions of the messages before it.
AppendTransaction_reset(txns, txn) == IF txn = <<>> THEN <<>> ELSE txns \o txn

\* line 85: txn is <<>> (nil, nothing appended) or one transaction
AppendTransaction(txns, txn) == txns \o txn

(***************************************************************************)
(* The clock.  clock counts the days that have passed since Epoch, the day  *)
(* before the last of a year, so that both a day and the year can change   *)
(* while the program runs.                                                 *)
(***************************************************************************)
Epoch == [year |-> 2026, month |-> 12, day |-> 30, sec |-> 36000]

\* the day after t
NextDay(t) ==
    IF t.day < daysIn(t.month, t.year) THEN [t EXCEPT !.day = t.day + 1]
    ELSE IF t.month < 12 THEN [t EXCEPT !.month = t.month + 1, !.day = 1]
    ELSE [t EXCEPT !.year = t.year + 1, !.month = 1, !.day = 1]

RECURSIVE AddDays(_, _)
AddDays(t, n) == IF n = 0 THEN t ELSE AddDays(NextDay(t), n - 1)

\* time.Now() when c days have passed
TimeAt(c) == AddDays(Epoch, c)

(***************************************************************************)
(* The extractor as a state machine.  The catalog file and the message     *)
(* batch are inputs; ExtractTransactions runs message by message, each     *)
(* matchService call ranging over the map in orders of its own.            *)
(***************************************************************************)
MaxServices == 2
MaxBatch == 2
MaxRuns == 2
MaxTicks == 2

\* the service entries a catalog file is made of
ServiceEntries ==
    << \* uber.com; trip
       [ID |-> "uber", Name |-> "Uber", Category |-> "transport",
        EmailDomains |-> <<<<"u", "b", "e", "r", ".", "c", "o", "m">>>>,
        Keywords |-> <<<<"t", "r", "i", "p">>>>],
       \* LYFT.com; ride, trip
       [ID |-> "lyft", Name |-> "Lyft", Category |-> "transport",
        EmailDomains |-> <<<<"L", "Y", "F", "T", ".", "c", "o", "m">>>>,
        Keywords |-> <<<<"r", "i", "d", "e">>, <<"t", "r", "i", "p">>>>],
       \* an entry without id and domains; Total
       [ID |-> "", Name |-> "Other", Category |-> "misc",
        EmailDomains |-> <<>>,
        Keywords |-> <<<<"T", "o", "t", "a", "l">>>>] >>

\* a second entry under the id of the first (eats.com; order)
SharedIdEntry ==
    [ID |-> "uber", Name |-> "Uber Eats", Category |-> "food",
     EmailDomains |-> <<<<"e", "a", "t", "s", ".", "c", "o", "m">>>>,
     Keywords |-> <<<<"o", "r", "d", "e", "r">>>>]

\* The messages a batch is made of (sender | subject | body).  A Gmail message
\* id names one message, so two elements of a batch with the same id are the
\* same message.
Inbox ==
    << \* billing@uber.com | Your Friday trip | Total $18.32 USD
       [ID |-> "m1",
        From |-> <<"b", "i", "l", "l", "i", "n", "g", "@", "u", "b", "e", "r", ".", "c", "o", "m">>,
        Subject |-> <<"Y", "o", "u", "r", " ", "F", "r", "i", "d", "a", "y", " ", "t", "r", "i", "p">>,
        Body |-> <<"T", "o", "t", "a", "l", " ", "$", "1", "8", ".", "3", "2", " ", "U", "S", "D">>,
        Date |-> [year |-> 2024, month |-> 3, day |-> 1, sec |-> 36000]],
       \* x@mail.com | ride $99 | trip $25 December 14, 2025
       [ID |-> "m2",
        From |-> <<"x", "@", "m", "a", "i", "l", ".", "c", "o", "m">>,
        Subject |-> <<"r", "i", "d", "e", " ", "$", "9", "9">>,
        Body |-> <<"t", "r", "i", "p", " ", "$", "2", "5", " ", "D", "e", "c", "e", "m", "b", "e", "r", " ", "1", "4", ",", " ", "2", "0", "2", "5">>,
        Date |-> [year |-> 2025, month |-> 12, day |-> 20, sec |-> 100]],
       \* x@mail.com | hello | see uber.com $5.00
       [ID |-> "m3",
        From |-> <<"x", "@", "m", "a", "i", "l", ".", "c", "o", "m">>,
        Subject |-> <<"h", "e", "l", "l", "o">>,
        Body |-> <<"s", "e", "e", " ", "u", "b", "e", "r", ".", "c", "o", "m", " ", "$", "5", ".", "0", "0">>,
        Date |-> [year |-> 2024, month |-> 5, day |-> 2, sec |-> 7]],
       \* NO@LYFT.COM | receipt $30 | no charge
       [ID |-> "m4",
        From |-> <<"N", "O", "@", "L", "Y", "F", "T", ".", "C", "O", "M">>,
        Subject |-> <<"r", "e", "c", "e", "i", "p", "t", " ", "$", "3", "0">>,
        Body |-> <<"n", "o", " ", "c", "h", "a", "r", "g", "e">>,
        Date |-> [year |-> 2024, month |-> 6, day |-> 3, sec |-> 0]],
       \* b@Uber.com | trip december 14 | <b>paid</b> 7.50
       [ID |-> "m5",
        From |-> <<"b", "@", "U", "b", "e", "r", ".", "c", "o", "m">>,
        Subject |-> <<"t", "r", "i", "p", " ", "d", "e", "c", "e", "m", "b", "e", "r", " ", "1", "4">>,
        Body |-> <<"<", "b", ">", "p", "a", "i", "d", "<", "/", "b", ">", " ", "7", ".", "5", "0">>,
        Date |-> [year |-> 2026, month |-> 12, day |-> 15, sec |-> 60]] >>

\* extractTransactionFromMessage on the inputs of the model, worked out once:
\* the message Inbox[i], what matchService returned, and the time
Extracted ==
    [i \in 1..Len(Inbox),
     service \in {<<>>, <<SharedIdEntry>>}
                     \cup {<<ServiceEntries[k]>> : k \in 1..Len(ServiceEntries)},
     c \in 0..MaxTicks |->
        extractTransactionFromMessage(Inbox[i], service, TimeAt(c))]

\* the message of Inbox that has the id
InboxOfID(id) == CHOOSE i \in 1..Len(Inbox) : Inbox[i].ID = id

InboxIndex(msg) == InboxOfID(msg.ID)

\* the sequences of at most n indices into a sequence of length k
RECURSIVE IndexSeqs(_, _)
IndexSeqs(k, n) ==
    IF n = 0 THEN {<<>>}
    ELSE IndexSeqs(k, n - 1) \cup
         {Append(q, i) : q \in {r \in IndexSeqs(k, n - 1) : Len(r) = n - 1}, i \in 1..k}

\* The catalog files: the map of lines 68-74 forgets the order of entries with
\* different ids, so a file lists its entries in the order of ServiceEntries.
CatalogFiles ==
    {[i \in 1..Len(q) |-> ServiceEntries[q[i]]] :
        q \in {r \in IndexSeqs(Len(ServiceEntries), MaxServices) :
                   \A i \in 1..(Len(r) - 1) : r[i] < r[i + 1]}}

\* the files in which two entries share an id
SharedIdFiles ==
    {<<ServiceEntries[1], SharedIdEntry>>, <<SharedIdEntry, ServiceEntries[1]>>}

\* the catalogs loadServiceTracker makes of them
Trackers == {loadServiceTracker(file) : file \in CatalogFiles \cup SharedIdFiles}

\* matchService on the inputs of the model, worked out once: the services it
\* can return for the message Inbox[i], over the orders of the two loops
Matched ==
    [i \in 1..Len(Inbox), services \in Trackers |->
        {matchService(services, Inbox[i], domainOrder, keywordOrder) :
            domainOrder \in MapOrders(services), keywordOrder \in MapOrders(services)}]

\* the ids of the services of which a domain is in the sender of Inbox[i]
ByDomain ==
    [i \in 1..Len(Inbox), services \in Trackers |->
        {id \in DOMAIN services : MatchesByDomain(services[id], ToLower(Inbox[i].From))}]

\* the ids of the services of which a keyword is in body + " " + subject of Inbox[i]
ByKeyword ==
    [i \in 1..Len(Inbox), services \in Trackers |->
        {id \in DOMAIN services :
            MatchesByKeyword(services[id],
                             ToLower(Inbox[i].Body \o <<" ">> \o Inbox[i].Subject))}]

Batches ==
    {[i \in 1..Len(q) |-> Inbox[q[i]]] : q \in IndexSeqs(Len(Inbox), MaxBatch)}

\* the variables of the parsers run on their own, which the extractor leaves alone
ParsersIdle ==
    /\ text = <<>>
    /\ parsed = <<>>
    /\ dateBody = <<>>
    /\ dateSubject = <<>>
    /\ recovered = <<>>

\* requestNewToken, gm calculate and the cut of a batch, where they play no part
NoLogin == [phase |-> "none"]
NoCalculate == [phase |-> "none"]
NoSplit == [whole |-> <<>>, at |-> 0]

\* NewTransactionExtractor has returned the extractor (lines 47-49)
Constructed == [file |-> "valid", result |-> "extractor"]

\* neither GetServiceByID nor GetAllServices has been called
NothingHanded == [fn |-> "", arg |-> "", value |-> <<>>]

\* NewTransactionExtractor (lines 41-50) has loaded the catalog
Init ==
    /\ load = Constructed
    /\ handed = NothingHanded
    /\ login = NoLogin
    /\ calc = NoCalculate
    /\ split = NoSplit
    /\ catalogFile \in CatalogFiles
    /\ tracker = loadServiceTracker(catalogFile)
    /\ messages \in Batches
    /\ idx = 0
    /\ transactions = <<>>
    /\ runs = <<>>
    /\ clock = 0
    /\ ParsersIdle

\* ExtractTransactions is called (lines 80-81)
CallExtract ==
    /\ load.result = "extractor"
    /\ idx = 0
    /\ Len(runs) < MaxRuns
    /\ idx' = 1
    /\ transactions' = <<>>
    /\ UNCHANGED <<login, calc, split, load, handed, catalogFile, tracker, messages, runs, clock,
                   text, parsed, dateBody, dateSubject, recovered>>

\* one turn of the loop of ExtractTransactions (lines 83-87)
ExtractMessage ==
    /\ idx \in 1..Len(messages)
    /\ \E service \in Matched[InboxIndex(messages[idx]), tracker] :
           transactions' = AppendTransaction(transactions,
                               Extracted[InboxIndex(messages[idx]), service, clock])
    /\ idx' = idx + 1
    /\ UNCHANGED <<login, calc, split, load, handed, catalogFile, tracker, messages, runs, clock,
                   text, parsed, dateBody, dateSubject, recovered>>

\* ExtractTransactions returns (line 89)
ReturnExtract ==
    /\ idx = Len(messages) + 1
    /\ runs' = Append(runs, transactions)
    /\ idx' = 0
    /\ transactions' = <<>>
    /\ UNCHANGED <<login, calc, split, load, handed, catalogFile, tracker, messages, clock,
                   text, parsed, dateBody, dateSubject, recovered>>

\* a day passes between two calls
Tick ==
    /\ idx = 0
    /\ Len(runs) \in 1..(MaxRuns - 1)
    /\ clock < MaxTicks
    /\ clock' = clock + 1
    /\ UNCHANGED <<login, calc, split, load, handed, catalogFile, tracker, messages, idx, transactions, runs,
                   text, parsed, dateBody, dateSubject, recovered>>

Next == CallExtract \/ ExtractMessage \/ ReturnExtract \/ Tick

Spec == Init /\ [][Next]_vars

(***************************************************************************)
(* What ExtractTransactions returns.  runs holds the results of the calls  *)
(* that have returned, transactions the result the running call is         *)
(* building.                                                               *)
(***************************************************************************)
\* the amount parser on the body of each message of Inbox, worked out once
InboxAmount ==
    [i \in 1..Len(Inbox) |-> extractAmountWithCurrency(Inbox[i].Body)]

\* the date recoverer on each message of Inbox at each time, worked out once
InboxDate ==
    [i \in 1..Len(Inbox), c \in 0..MaxTicks |->
        extractTransactionDate(Inbox[i].Body, Inbox[i].Subject, TimeAt(c))]

\* some pattern of lines 366-377 or the pattern of line 409 matches in fullText
AnyDatePatternMatches(fullText) ==
    \/ \E k \in 1..Len(datePatterns) :
           Len(FindAllStringSubmatch(datePatterns[k].pattern, fullText)) > 0
    \/ Len(FindAllStringSubmatch(monthDayPattern, fullText)) > 0

InboxHasDatePattern ==
    [i \in 1..Len(Inbox) |->
        AnyDatePatternMatches(FullText(Inbox[i].Body, Inbox[i].Subject))]

\* the number of days after which time.Now() read t
TickOf(t) == CHOOSE c \in 0..MaxTicks : TimeAt(c) = t

\* the transactions of the calls that have returned and of the running call
Emitted ==
    UNION {{runs[r][t] : t \in 1..Len(runs[r])} : r \in 1..Len(runs)}
        \cup {transactions[t] : t \in 1..Len(transactions)}

\* some service of the loaded catalog has a domain the sender contains
SomeDomainMatches(msg) == ByDomain[InboxIndex(msg), tracker] /= {}

\* some service of the loaded catalog has a keyword body + " " + subject contains
SomeKeywordMatches(msg) == ByKeyword[InboxIndex(msg), tracker] /= {}

\* the ids of a sequence of messages or of transactions
IDs(q) == [i \in 1..Len(q) |-> q[i].ID]

\* C1: for every catalog and every message batch, every transaction that
\* ExtractTransactions returns has Amount > 0.
C1_AmountPositive == \A txn \in Emitted : txn.Amount > 0

\* a call has returned a transaction for a batch in which a message matched a
\* service and held no amount
C1_Witness ==
    /\ \E r \in 1..Len(runs) : Len(runs[r]) > 0
    /\ \E i \in 1..Len(messages) :
           /\ SomeDomainMatches(messages[i])
           /\ InboxAmount[InboxIndex(messages[i])].amount = 0

\* C2: for every catalog that loadServiceTracker accepts and every message
\* batch, every transaction that ExtractTransactions returns has a non-empty
\* ServiceID.
C2_ServiceIDNonEmpty == \A txn \in Emitted : txn.ServiceID /= ""

\* C3: a message whose sender contains no email-domain of the catalog and
\* whose body and subject contain no keyword of the catalog gets no
\* transaction that carries its id, whatever amounts and dates it holds.
C3_NoMatchNoTransaction ==
    \A i \in 1..Len(messages) :
        (~SomeDomainMatches(messages[i]) /\ ~SomeKeywordMatches(messages[i]))
            => \A txn \in Emitted : txn.ID /= messages[i].ID

\* a call has returned for a batch with a message that no service matches,
\* that holds an amount and that names a domain of the catalog in its body
C3_Witness ==
    /\ Len(runs) > 0
    /\ \E i \in 1..Len(messages) :
           /\ ~SomeDomainMatches(messages[i])
           /\ ~SomeKeywordMatches(messages[i])
           /\ InboxAmount[InboxIndex(messages[i])].amount > 0
           /\ \E id \in DOMAIN tracker :
                  MatchesByDomain(tracker[id], ToLower(messages[i].Body))

\* a message that matches a service and yields a positive amount
Qualifies(msg) ==
    /\ SomeDomainMatches(msg) \/ SomeKeywordMatches(msg)
    /\ InboxAmount[InboxIndex(msg)].amount > 0

\* C4: the output of ExtractTransactions holds one transaction, with the id
\* of the message, for each input message that matches a service and yields
\* a positive amount, none for any other message, in the order of the input.
C4_OrderPreservingOneToOne ==
    /\ \A r \in 1..Len(runs) : IDs(runs[r]) = IDs(SelectSeq(messages, Qualifies))
    /\ idx > 0 =>
           IDs(transactions) = IDs(SelectSeq(SubSeq(messages, 1, idx - 1), Qualifies))

\* a call has returned two transactions of different messages for a batch
C4_Witness ==
    \E r \in 1..Len(runs) :
        /\ Len(runs[r]) = 2
        /\ runs[r][1].ID /= runs[r][2].ID

\* what the recoverer returned for the message of a transaction, at the time
\* the transaction was made
RecoveredFor(txn) == InboxDate[InboxOfID(txn.ID), TickOf(txn.Timestamp)]

\* C9: when no date pattern matches in the body and subject the recoverer
\* returns the zero time and the transaction has the date at which the message
\* was received; when the recoverer returns a date, the transaction has it.
C9_DateOrReceived ==
    \A txn \in Emitted :
        /\ ~InboxHasDatePattern[InboxOfID(txn.ID)] =>
               /\ IsZero(RecoveredFor(txn))
               /\ txn.Date = Inbox[InboxOfID(txn.ID)].Date
        /\ ~IsZero(RecoveredFor(txn)) => txn.Date = RecoveredFor(txn)

\* a call has returned a transaction of a message without a date and one of a
\* message with a date that is not the date at which it was received
C9_Witness ==
    \E r \in 1..Len(runs) :
        /\ \E t \in 1..Len(runs[r]) : ~InboxHasDatePattern[InboxOfID(runs[r][t].ID)]
        /\ \E t \in 1..Len(runs[r]) :
               /\ ~IsZero(RecoveredFor(runs[r][t]))
               /\ RecoveredFor(runs[r][t]) /= Inbox[InboxOfID(runs[r][t].ID)].Date

\* two transaction records that differ at most in the Timestamp
SameButTimestamp(a, b) ==
    [a EXCEPT !.Timestamp = ZeroTime] = [b EXCEPT !.Timestamp = ZeroTime]

\* two results of ExtractTransactions that differ at most in the Timestamps
SameRecords(p, q) ==
    /\ Len(p) = Len(q)
    /\ \A t \in 1..Len(p) : SameButTimestamp(p[t], q[t])

\* at most one service of the loaded catalog can be returned for the message
OneServiceAtMost(msg) ==
    /\ Cardinality(ByDomain[InboxIndex(msg), tracker]) <= 1
    /\ ByDomain[InboxIndex(msg), tracker] = {} =>
           Cardinality(ByKeyword[InboxIndex(msg), tracker]) <= 1

\* the two calls were made in the same calendar year
SameYear(p, q) ==
    \A s \in 1..Len(p), t \in 1..Len(q) : p[s].Timestamp.year = q[t].Timestamp.year

\* C10 as the specification states it: two calls of ExtractTransactions on
\* the same batch with the same catalog return the same records, but for the
\* Timestamp, also when two services can match the same message.
C10_Idempotent == Len(runs) >= 2 => SameRecords(runs[1], runs[2])

\* C10, amended: two calls of ExtractTransactions on the same batch with the
\* same catalog, made in the same calendar year, return the same records, but
\* for the Timestamp, if for each message at most one service matches by
\* domain and, when none does, at most one matches by keyword.
C10_IdempotentOneService ==
    (/\ Len(runs) >= 2
     /\ \A i \in 1..Len(messages) : OneServiceAtMost(messages[i])
     /\ SameYear(runs[1], runs[2]))
        => SameRecords(runs[1], runs[2])

\* two calls on different days of one year have returned a transaction of a
\* message that one service matches by domain and another by keyword
C10_Witness ==
    /\ Len(runs) >= 2
    /\ \A i \in 1..Len(messages) : OneServiceAtMost(messages[i])
    /\ SameYear(runs[1], runs[2])
    /\ Len(runs[1]) > 0
    /\ runs[1][1].Timestamp /= runs[2][1].Timestamp
    /\ \E i \in 1..Len(messages) :
           /\ SomeDomainMatches(messages[i])
           /\ ByKeyword[InboxIndex(messages[i]), tracker]
                  \ ByDomain[InboxIndex(messages[i]), tracker] /= {}
           /\ \E t \in 1..Len(runs[1]) : runs[1][t].ID = messages[i].ID

(***************************************************************************)
(* The amount parser on its own: extractAmountWithCurrency is applied to a *)
(* text made of at most MaxFragments of the fragments below, or to one of  *)
(* the receipts and no-amount texts listed after them.                     *)
(***************************************************************************)
MaxFragments == 3

\* dollar figures as a receipt writes them, with their value in hundredths
Figures ==
    << \* "$10 ", "$10.00 ", "$25 ", "$25.50 "
       [text |-> <<"$", "1", "0", " ">>, amount |-> 1000],
       [text |-> <<"$", "1", "0", ".", "0", "0", " ">>, amount |-> 1000],
       [text |-> <<"$", "2", "5", " ">>, amount |-> 2500],
       [text |-> <<"$", "2", "5", ".", "5", "0", " ">>, amount |-> 2550] >>

\* the fragments a text is made of: "$10 ", "$25.50 " and
\* "$123.45", "Total ", " USD", "$2,500,000.00"
AmountFragments ==
    <<Figures[1].text, Figures[4].text>> \o
    << <<"$", "1", "2", "3", ".", "4", "5">>,
       <<"T", "o", "t", "a", "l", " ">>,
       <<" ", "U", "S", "D">>,
       <<"$", "2", ",", "5", "0", "0", ",", "0", "0", "0", ".", "0", "0">> >>

FragmentTexts ==
    {Concat([i \in 1..Len(q) |-> AmountFragments[q[i]]]) :
        q \in IndexSeqs(Len(AmountFragments), MaxFragments)}

\* the texts in which the total is written twice and the line item once
Arrangements(item, total) ==
    {item \o total \o total, total \o item \o total, total \o total \o item}

\* the receipts that list a figure once and a larger figure twice
ReceiptTexts ==
    UNION {Arrangements(Figures[pair[1]].text, Figures[pair[2]].text) :
              pair \in {q \in (1..Len(Figures)) \X (1..Len(Figures)) :
                            Figures[q[1]].amount < Figures[q[2]].amount}}

\* texts that hold no amount: "Total ", "no charge", "$,", "0.00", "$0",
\* "0 USD", "Total: $0.00", "€0", "2500000", "1,000,000", "USD ,"
NoAmountTexts ==
    {<<"T", "o", "t", "a", "l", " ">>,
     <<"n", "o", " ", "c", "h", "a", "r", "g", "e">>,
     <<"$", ",">>,
     <<"0", ".", "0", "0">>,
     <<"$", "0">>,
     <<"0", " ", "U", "S", "D">>,
     <<"T", "o", "t", "a", "l", ":", " ", "$", "0", ".", "0", "0">>,
     <<"€", "0">>,
     <<"2", "5", "0", "0", "0", "0", "0">>,
     <<"1", ",", "0", "0", "0", ",", "0", "0", "0">>,
     <<"U", "S", "D", " ", ",">>}

\* The currency markers of the table of lines 172-183, as a text writes them
\* before or after its amount, with the code and symbol of their table rows:
\* "$", " USD", "MXN ", "M$", "MEX ", "€", " EUR", "£", " GBP", "¥", "JPY ",
\* "CAD ", "$C"
Markers ==
    << [before |-> <<"$">>, after |-> <<>>, currency |-> "USD", symbol |-> "$"],
       [before |-> <<>>, after |-> <<" ", "U", "S", "D">>, currency |-> "USD", symbol |-> "$"],
       [before |-> <<"M", "X", "N", " ">>, after |-> <<>>, currency |-> "MXN", symbol |-> "$"],
       [before |-> <<"M", "$">>, after |-> <<>>, currency |-> "MXN", symbol |-> "$"],
       [before |-> <<"M", "E", "X", " ">>, after |-> <<>>, currency |-> "MXN", symbol |-> "$"],
       [before |-> <<"€">>, after |-> <<>>, currency |-> "EUR", symbol |-> "€"],
       [before |-> <<>>, after |-> <<" ", "E", "U", "R">>, currency |-> "EUR", symbol |-> "€"],
       [before |-> <<"£">>, after |-> <<>>, currency |-> "GBP", symbol |-> "£"],
       [before |-> <<>>, after |-> <<" ", "G", "B", "P">>, currency |-> "GBP", symbol |-> "£"],
       [before |-> <<"¥">>, after |-> <<>>, currency |-> "JPY", symbol |-> "¥"],
       [before |-> <<"J", "P", "Y", " ">>, after |-> <<>>, currency |-> "JPY", symbol |-> "¥"],
       [before |-> <<"C", "A", "D", " ">>, after |-> <<>>, currency |-> "CAD", symbol |-> "$"],
       [before |-> <<"$", "C">>, after |-> <<>>, currency |-> "CAD", symbol |-> "$"] >>

\* an integer amount and an amount with decimals, in hundredths: "20", "12.50"
Amounts ==
    << [text |-> <<"2", "0">>, amount |-> 2000],
       [text |-> <<"1", "2", ".", "5", "0">>, amount |-> 1250] >>

\* the amount a under the marker k
MarkedText(k, a) == Markers[k].before \o Amounts[a].text \o Markers[k].after

\* the texts whose only amount carries one marker
MarkedTexts == {MarkedText(k, a) : k \in 1..Len(Markers), a \in 1..Len(Amounts)}

\* the texts of two amounts, the first under "$", "€" or "£" and the second
\* under another marker: "$12.50 €20", ...
TwoCurrencyTexts ==
    {MarkedText(q[1], q[3]) \o <<" ">> \o MarkedText(q[2], q[4]) :
        q \in {r \in {1, 6, 8} \X (1..Len(Markers)) \X (1..Len(Amounts)) \X (1..Len(Amounts)) :
                   r[1] /= r[2] /\ r[3] /= r[4]}}

\* decimal tokens without a currency sign, in hundredths: "1.00", "3.00",
\* and those a code follows: "9.00", "2.00"
PlainTokens == <<<<"1", ".", "0", "0">>, <<"3", ".", "0", "0">>>>
CodedTokens ==
    << [text |-> <<"9", ".", "0", "0">>, amount |-> 900],
       [text |-> <<"2", ".", "0", "0">>, amount |-> 200] >>

\* the codes of the last pattern of extractAmount (line 257)
Codes == <<<<"U", "S", "D">>, <<"E", "U", "R">>, <<"G", "B", "P">>>>

\* the three tokens in a row, the coded token b with the code c at position at
TokenText(b, c, at) ==
    LET coded == CodedTokens[b].text \o <<" ">> \o Codes[c]
    IN  CASE at = 1 -> coded \o <<" ">> \o PlainTokens[1] \o <<" ">> \o PlainTokens[2]
          [] at = 2 -> PlainTokens[1] \o <<" ">> \o coded \o <<",", " ">> \o PlainTokens[2]
          [] OTHER -> PlainTokens[1] \o <<" ">> \o PlainTokens[2] \o <<" ">> \o coded

TokenTexts ==
    {TokenText(b, c, at) : b \in 1..Len(CodedTokens), c \in 1..Len(Codes), at \in 1..3}

AmountTexts ==
    FragmentTexts \cup ReceiptTexts \cup NoAmountTexts
        \cup MarkedTexts \cup TwoCurrencyTexts \cup TokenTexts

\* the variables of the extractor, which the parsers run on their own leave alone
ExtractorIdle ==
    /\ load = Constructed
    /\ handed = NothingHanded
    /\ login = NoLogin
    /\ calc = NoCalculate
    /\ split = NoSplit
    /\ catalogFile = <<>>
    /\ tracker = loadServiceTracker(<<>>)
    /\ messages = <<>>
    /\ idx = 0
    /\ transactions = <<>>
    /\ runs = <<>>

InitAmount ==
    /\ text \in AmountTexts
    /\ parsed = <<>>
    /\ dateBody = <<>>
    /\ dateSubject = <<>>
    /\ recovered = <<>>
    /\ clock = 0
    /\ ExtractorIdle

\* line 101: te.extractAmountWithCurrency(msg.Body)
ParseAmount ==
    /\ parsed = <<>>
    /\ parsed' = <<extractAmountWithCurrency(text)>>
    /\ UNCHANGED <<login, calc, split, load, handed, catalogFile, tracker, messages, idx, transactions, runs, clock,
                   text, dateBody, dateSubject, recovered>>

NextAmount == ParseAmount

SpecAmount == InitAmount /\ [][NextAmount]_vars

\* a text without a number and without a currency marker of the table of
\* lines 167-184
NoNumberNoMarker(t) ==
    /\ ~ContainsAny(t, Digit \cup {"$", "€", "£", "¥"})
    /\ \A w \in {<<"u", "s", "d">>,
                 <<"m", "x", "n">>,
                 <<"m", "e", "x">>,
                 <<"e", "u", "r">>,
                 <<"g", "b", "p">>,
                 <<"j", "p", "y">>,
                 <<"c", "a", "d">>} :
           ~Contains(ToLower(t), w)

\* t holds "$123.45" and no other number or currency marker
Only12345(t) ==
    \E i \in 1..Len(t) :
        /\ HasAt(t, i, <<"$", "1", "2", "3", ".", "4", "5">>)
        /\ NoNumberNoMarker(SubSeq(t, 1, i - 1))
        /\ NoNumberNoMarker(SubSeq(t, i + 7, Len(t)))
        /\ i > 1 => t[i - 1] \notin {"m", "M"}

\* C5: for a text that holds "$123.45" and no other currency marker or
\* number, extractAmountWithCurrency returns the amount 123.45, the code
\* "USD", the symbol "$" and the raw text "$123.45".
C5_DollarAmountWithRaw ==
    (parsed /= <<>> /\ Only12345(text)) =>
        parsed[1] = [amount |-> 12345, currency |-> "USD", symbol |-> "$",
                     raw |-> <<"$", "1", "2", "3", ".", "4", "5">>]

\* C6: extractAmountWithCurrency returns no amount at or above 1,000,000,
\* and for "$2,500,000.00" it returns the amount 0.
C6_BelowSanityBound ==
    parsed /= <<>> =>
        /\ parsed[1].amount < Units(SanityBound)
        /\ text = <<"$", "2", ",", "5", "0", "0", ",", "0", "0", "0", ".", "0", "0">> => parsed[1].amount = 0

\* C7: for a text whose only figures are "$"-prefixed amounts below
\* 1,000,000, written as integers or with two decimals, in which a total
\* appears twice and a smaller line item once, the parser returns the total.
C7_TotalNotLineItem ==
    \A item, total \in 1..Len(Figures) :
        (/\ parsed /= <<>>
         /\ Figures[item].amount < Figures[total].amount
         /\ text \in Arrangements(Figures[item].text, Figures[total].text))
            => parsed[1].amount = Figures[total].amount

(***************************************************************************)
(* The date recoverer on its own: extractTransactionDate is applied to a   *)
(* body made of at most MaxDateFragments of the fragments below and to a   *)
(* subject, on one of the days of the clock.                               *)
(***************************************************************************)
MaxDateFragments == 3

\* "Dec 14, 2025", "December 14, 2025", "december 14", "<b>", "</b>", "&nbsp;", "2025-12-14"
DateFragments ==
    << <<"D", "e", "c", " ", "1", "4", ",", " ", "2", "0", "2", "5">>,
       <<"D", "e", "c", "e", "m", "b", "e", "r", " ", "1", "4", ",", " ", "2", "0", "2", "5">>,
       <<"d", "e", "c", "e", "m", "b", "e", "r", " ", "1", "4">>,
       <<"<", "b", ">">>,
       <<"<", "/", "b", ">">>,
       <<"&", "n", "b", "s", "p", ";">>,
       <<"2", "0", "2", "5", "-", "1", "2", "-", "1", "4">> >>

DateBodies ==
    {Concat([i \in 1..Len(q) |-> DateFragments[q[i]]]) :
        q \in IndexSeqs(Len(DateFragments), MaxDateFragments)}

\* dates written in digits, with the calendar dates they name: "2025-12-14",
\* "12/14/2025", "2024-02-29", "02/29/2024"
NumericDates ==
    << [text |-> <<"2", "0", "2", "5", "-", "1", "2", "-", "1", "4">>, date |-> Date(2025, 12, 14)],
       [text |-> <<"1", "2", "/", "1", "4", "/", "2", "0", "2", "5">>, date |-> Date(2025, 12, 14)],
       [text |-> <<"2", "0", "2", "4", "-", "0", "2", "-", "2", "9">>, date |-> Date(2024, 2, 29)],
       [text |-> <<"0", "2", "/", "2", "9", "/", "2", "0", "2", "4">>, date |-> Date(2024, 2, 29)] >>

\* the bodies that hold the date k alone, after "Paid on " or between tags
NumericDateBodiesOf(k) ==
    {NumericDates[k].text,
     <<"P", "a", "i", "d", " ", "o", "n", " ">> \o NumericDates[k].text,
     DateFragments[4] \o NumericDates[k].text \o DateFragments[5]}

NumericDateBodies == UNION {NumericDateBodiesOf(k) : k \in 1..Len(NumericDates)}

\* dates written with a month name, in the shapes of the third and fourth
\* pattern, with the calendar dates they name:
\* "December 14, 2025", "Dec 14, 2025", "December 5, 2025", "Dec 5, 2025",
\* "14 December 2025", "14 Dec 2025", "5 December 2025", "5 Dec 2025",
\* "March 03 2024", "29 february 2024"
MonthNameDates ==
    << [text |-> <<"D", "e", "c", "e", "m", "b", "e", "r", " ", "1", "4", ",", " ", "2", "0", "2", "5">>,
        date |-> Date(2025, 12, 14)],
       [text |-> <<"D", "e", "c", " ", "1", "4", ",", " ", "2", "0", "2", "5">>,
        date |-> Date(2025, 12, 14)],
       [text |-> <<"D", "e", "c", "e", "m", "b", "e", "r", " ", "5", ",", " ", "2", "0", "2", "5">>,
        date |-> Date(2025, 12, 5)],
       [text |-> <<"D", "e", "c", " ", "5", ",", " ", "2", "0", "2", "5">>,
        date |-> Date(2025, 12, 5)],
       [text |-> <<"1", "4", " ", "D", "e", "c", "e", "m", "b", "e", "r", " ", "2", "0", "2", "5">>,
        date |-> Date(2025, 12, 14)],
       [text |-> <<"1", "4", " ", "D", "e", "c", " ", "2", "0", "2", "5">>,
        date |-> Date(2025, 12, 14)],
       [text |-> <<"5", " ", "D", "e", "c", "e", "m", "b", "e", "r", " ", "2", "0", "2", "5">>,
        date |-> Date(2025, 12, 5)],
       [text |-> <<"5", " ", "D", "e", "c", " ", "2", "0", "2", "5">>,
        date |-> Date(2025, 12, 5)],
       [text |-> <<"M", "a", "r", "c", "h", " ", "0", "3", " ", "2", "0", "2", "4">>,
        date |-> Date(2024, 3, 3)],
       [text |-> <<"2", "9", " ", "f", "e", "b", "r", "u", "a", "r", "y", " ", "2", "0", "2", "4">>,
        date |-> Date(2024, 2, 29)] >>

\* the bodies that hold the date k alone, after "Paid on " or between tags
MonthNameDateBodiesOf(k) ==
    {MonthNameDates[k].text,
     <<"P", "a", "i", "d", " ", "o", "n", " ">> \o MonthNameDates[k].text,
     DateFragments[4] \o MonthNameDates[k].text \o DateFragments[5]}

MonthNameDateBodies == UNION {MonthNameDateBodiesOf(k) : k \in 1..Len(MonthNameDates)}

\* the dates above in one sequence, and the pattern family (the index into
\* datePatterns) that each of them is written in
DatedTokens == NumericDates \o MonthNameDates
FamilyOf == <<1, 2, 1, 2, 3, 3, 3, 3, 4, 4, 4, 4, 3, 4>>

\* the body that holds the date a and, after it, the date b
TwoDates(a, b) == DatedTokens[a].text \o <<" ", "a", "n", "d", " ">> \o DatedTokens[b].text

\* the bodies of two different dates of one family
SameFamilyBodies ==
    {TwoDates(q[1], q[2]) :
        q \in {r \in (1..Len(DatedTokens)) \X (1..Len(DatedTokens)) :
                   r[1] /= r[2] /\ FamilyOf[r[1]] = FamilyOf[r[2]]}}

\* the bodies of two dates of different families, in either order
TwoFamilyBodies ==
    {TwoDates(q[1], q[2]) :
        q \in {r \in (1..Len(DatedTokens)) \X (1..Len(DatedTokens)) :
                   FamilyOf[r[1]] /= FamilyOf[r[2]]}}

\* a month and a day without a year, with the month and day they name:
\* "Dec 14", "December 14", "Dec 5", "December 5", "march 03"
MonthDayTokens ==
    << [text |-> <<"D", "e", "c", " ", "1", "4">>, month |-> 12, day |-> 14],
       [text |-> <<"D", "e", "c", "e", "m", "b", "e", "r", " ", "1", "4">>, month |-> 12, day |-> 14],
       [text |-> <<"D", "e", "c", " ", "5">>, month |-> 12, day |-> 5],
       [text |-> <<"D", "e", "c", "e", "m", "b", "e", "r", " ", "5">>, month |-> 12, day |-> 5],
       [text |-> <<"m", "a", "r", "c", "h", " ", "0", "3">>, month |-> 3, day |-> 3] >>

\* the bodies that hold the token b alone, after "Paid on ", or after another token a
MonthDayBodiesOf(b) ==
    {MonthDayTokens[b].text, <<"P", "a", "i", "d", " ", "o", "n", " ">> \o MonthDayTokens[b].text}
        \cup {MonthDayTokens[a].text \o <<" ", "a", "n", "d", " ">> \o MonthDayTokens[b].text :
                  a \in 1..Len(MonthDayTokens)}

MonthDayBodies == UNION {MonthDayBodiesOf(b) : b \in 1..Len(MonthDayTokens)}

\* no subject, "Dec 14, 2025"
DateSubjects == {<<>>, DateFragments[1]}

InitDate ==
    /\ dateBody \in DateBodies \cup NumericDateBodies \cup MonthNameDateBodies
                      \cup SameFamilyBodies \cup TwoFamilyBodies \cup MonthDayBodies
    /\ dateSubject \in DateSubjects
    /\ recovered = <<>>
    /\ clock \in 0..MaxTicks
    /\ text = <<>>
    /\ parsed = <<>>
    /\ ExtractorIdle

\* line 107: te.extractTransactionDate(msg.Body, msg.Subject)
RecoverDate ==
    /\ recovered = <<>>
    /\ recovered' = <<extractTransactionDate(dateBody, dateSubject, TimeAt(clock))>>
    /\ UNCHANGED <<login, calc, split, load, handed, catalogFile, tracker, messages, idx, transactions, runs, clock,
                   text, parsed, dateBody, dateSubject>>

NextDate == RecoverDate

SpecDate == InitDate /\ [][NextDate]_vars

\* t holds "Dec 14, 2025" and, like rest, no digit outside it
OnlyDec14(t, rest) ==
    /\ ~ContainsAny(rest, Digit)
    /\ \E i \in 1..Len(t) :
           /\ HasAt(t, i, DateFragments[1])
           /\ ~ContainsAny(SubSeq(t, 1, i - 1), Digit)
           /\ ~ContainsAny(SubSeq(t, i + Len(DateFragments[1]), Len(t)), Digit)

\* C8: for a body and subject that hold "Dec 14, 2025" and no other
\* date-shaped token, also when it is wrapped in HTML tags or entities,
\* extractTransactionDate returns the calendar date 2025-12-14.
C8_Dec14Recovered ==
    (/\ recovered /= <<>>
     /\ OnlyDec14(dateBody, dateSubject) \/ OnlyDec14(dateSubject, dateBody))
        => recovered[1] = Date(2025, 12, 14)

\* C11: with a catalog that holds {id "uber", domains ["uber.com"], keywords
\* ["trip"]}, the single message from billing@uber.com with the subject
\* "Your Friday trip" and the body "Total $18.32 USD", received on 2024-03-01
\* at 10:00:00 UTC, yields one transaction with ServiceID "uber", Amount
\* 18.32, Currency "USD", CurrencySymbol "$" and the date of reception.
C11_UberEndToEnd ==
    (/\ "uber" \in DOMAIN tracker
     /\ tracker["uber"] = ServiceEntries[1]
     /\ messages = <<Inbox[1]>>)
        => \A r \in 1..Len(runs) :
               /\ Len(runs[r]) = 1
               /\ runs[r][1].ID = "m1"
               /\ runs[r][1].ServiceID = "uber"
               /\ runs[r][1].Amount = 1832
               /\ runs[r][1].Currency = "USD"
               /\ runs[r][1].CurrencySymbol = "$"
               /\ runs[r][1].Date = [year |-> 2024, month |-> 3, day |-> 1, sec |-> 36000]

\* a call has returned for that message and a catalog that holds the uber
\* entry and another service that matches the message by keyword
C11_Witness ==
    /\ "uber" \in DOMAIN tracker
    /\ tracker["uber"] = ServiceEntries[1]
    /\ messages = <<Inbox[1]>>
    /\ Cardinality(ByKeyword[1, tracker]) = 2
    /\ Len(runs) > 0

\* C12: extractAmountWithCurrency returns a value for every text, and for the
\* empty text and every text in which no tier finds a positive amount that
\* value is (0, "USD", "$", "").
C12_NoResultValue ==
    parsed /= <<>> =>
        /\ parsed[1].amount >= 0
        /\ (\/ text = <<>>
            \/ ~ContainsAny(text, Digit \ {"0"})
            \/ parsed[1].amount = 0)
               => parsed[1] = [amount |-> 0, currency |-> "USD", symbol |-> "$",
                               raw |-> <<>>]

\* the parser has returned for a text in which a pattern matches and the
\* matched number does not parse
C12_Witness ==
    /\ parsed /= <<>>
    /\ parsed[1].amount = 0
    /\ text = <<"$", ",">>

(***************************************************************************)
(* The extractor from its construction on.  load.file says whether         *)
(* tracker-mails.json can be read and parsed ("missing", "malformed",      *)
(* "valid"); load.result is "pending" before NewTransactionExtractor       *)
(* has run, "extractor" when it returned the extractor, "error" when it    *)
(* returned (nil, err) and "exit" when the process was ended.  The calls   *)
(* of ExtractTransactions, GetServiceByID and GetAllServices interleave.   *)
(***************************************************************************)
\* loadServiceTracker and NewTransactionExtractor (lines 41-66): log.Fatalf
\* at line 56 prints the message and calls os.Exit(1)
LoadResult(file) ==
    CASE file = "missing" -> "exit"
      [] file = "malformed" -> "error"
      [] OTHER -> "extractor"

\* GetServiceByID (lines 426-431): <<>> is nil, <<s>> a pointer to the copy s
GetServiceByID(services, id) ==
    IF id \in DOMAIN services THEN <<services[id]>> ELSE <<>>

\* Fault variant of GetAllServices: every element refers to the one loop
\* variable, which holds the service visited last.
GetAllServices_shared(services, order) ==
    [i \in 1..Len(order) |-> services[order[Len(order)]]]

\* GetAllServices (lines 434-440): the copies appended in the order of the range
GetAllServices(services, order) ==
    [i \in 1..Len(order) |-> services[order[i]]]

\* the ids GetServiceByID is called with: those of the entries and one of no entry
LookupIDs == {ServiceEntries[k].ID : k \in 1..Len(ServiceEntries)} \cup {"none"}

InitExtractor ==
    /\ load \in {[file |-> f, result |-> "pending"] : f \in {"missing", "malformed", "valid"}}
    /\ handed = NothingHanded
    /\ login = NoLogin
    /\ calc = NoCalculate
    /\ split = NoSplit
    /\ catalogFile \in (IF load.file = "valid" THEN CatalogFiles \cup SharedIdFiles
                        ELSE {<<>>})
    /\ tracker = loadServiceTracker(<<>>)
    /\ messages \in {b \in Batches : Len(b) <= 1}
    /\ idx = 0
    /\ transactions = <<>>
    /\ runs = <<>>
    /\ clock = 0
    /\ ParsersIdle

\* NewTransactionExtractor (lines 41-50)
CallNewTransactionExtractor ==
    /\ load.result = "pending"
    /\ load' = [load EXCEPT !.result = LoadResult(load.file)]
    /\ tracker' = IF LoadResult(load.file) = "extractor"
                  THEN loadServiceTracker(catalogFile) ELSE tracker
    /\ UNCHANGED <<login, calc, split, handed, catalogFile, messages, idx, transactions, runs, clock,
                   text, parsed, dateBody, dateSubject, recovered>>

\* GetServiceByID (lines 426-431)
CallGetServiceByID ==
    /\ load.result = "extractor"
    /\ \E id \in LookupIDs :
           handed' = [fn |-> "GetServiceByID", arg |-> id,
                      value |-> GetServiceByID(tracker, id)]
    /\ UNCHANGED <<login, calc, split, load, catalogFile, tracker, messages, idx, transactions, runs, clock,
                   text, parsed, dateBody, dateSubject, recovered>>

\* GetAllServices (lines 434-440)
CallGetAllServices ==
    /\ load.result = "extractor"
    /\ \E order \in MapOrders(tracker) :
           handed' = [fn |-> "GetAllServices", arg |-> "",
                      value |-> GetAllServices(tracker, order)]
    /\ UNCHANGED <<login, calc, split, load, catalogFile, tracker, messages, idx, transactions, runs, clock,
                   text, parsed, dateBody, dateSubject, recovered>>

NextExtractor ==
    \/ CallNewTransactionExtractor
    \/ CallExtract
    \/ ExtractMessage
    \/ ReturnExtract
    \/ Tick
    \/ CallGetServiceByID
    \/ CallGetAllServices

SpecExtractor == InitExtractor /\ [][NextExtractor]_vars

\* C13: whenever tracker-mails.json cannot be read or cannot be parsed,
\* NewTransactionExtractor returns (nil, err) to its caller.
C13_LoadErrorReturned ==
    (load.file \in {"missing", "malformed"} /\ load.result /= "pending")
        => load.result = "error"

\* the service definitions of a catalog
Definitions(services) == {services[id] : id \in DOMAIN services}

MatchedFor(msg) == Matched[InboxIndex(msg), tracker]

\* C15: when some service of the catalog has an email-domain that the sender
\* contains, whatever the case of the letters, matchService returns a service
\* with such a domain, also when other services match by keyword, and a
\* transaction of the message carries the id of a service with such a domain.
C15_DomainBeforeKeyword ==
    /\ \A i \in 1..Len(messages) :
           SomeDomainMatches(messages[i]) =>
               \A found \in MatchedFor(messages[i]) :
                   /\ found /= <<>>
                   /\ found[1].ID \in ByDomain[InboxIndex(messages[i]), tracker]
    /\ \A txn \in Emitted :
           ByDomain[InboxOfID(txn.ID), tracker] /= {} =>
               txn.ServiceID \in ByDomain[InboxOfID(txn.ID), tracker]

\* a call has returned a transaction of a message that one service matches
\* by domain and another service by keyword alone
C15_Witness ==
    \E r \in 1..Len(runs) : \E t \in 1..Len(runs[r]) :
        LET i == InboxOfID(runs[r][t].ID)
        IN  /\ ByDomain[i, tracker] /= {}
            /\ ByKeyword[i, tracker] \ ByDomain[i, tracker] /= {}

\* C16: matchService returns nil exactly when no service has an email-domain
\* that the sender contains and no service has a keyword that body + " " +
\* subject contains, whatever the case of the letters; a service it returns
\* has such a domain or such a keyword.
C16_NoMatchIffNeither ==
    \A i \in 1..Len(messages) :
        /\ (<<>> \in MatchedFor(messages[i]))
               <=> (~SomeDomainMatches(messages[i]) /\ ~SomeKeywordMatches(messages[i]))
        /\ (<<>> \in MatchedFor(messages[i])) => MatchedFor(messages[i]) = {<<>>}
        /\ \A found \in MatchedFor(messages[i]) :
               found /= <<>> =>
                   found[1].ID \in ByDomain[InboxIndex(messages[i]), tracker]
                                     \cup ByKeyword[InboxIndex(messages[i]), tracker]

\* a call has gone through a batch with a message that no service matches
\* and a message that a service matches by a keyword of the subject alone
C16_Witness ==
    /\ Len(runs) > 0
    /\ \E i \in 1..Len(messages) : MatchedFor(messages[i]) = {<<>>}
    /\ \E i \in 1..Len(messages) : \E id \in DOMAIN tracker :
           /\ ~SomeDomainMatches(messages[i])
           /\ MatchesByKeyword(tracker[id], ToLower(messages[i].Subject))
           /\ ~MatchesByKeyword(tracker[id], ToLower(messages[i].Body))
           /\ <<tracker[id]>> \in MatchedFor(messages[i])

\* the capture group that holds the number in row p of the currency table
\* (lines 172-183): the second after a marker, the first before one
NumberGroupOf(p) == IF p % 2 = 1 THEN 2 ELSE 1

\* the matches of row p of the currency table in t
CurrencyMatches(p, t) == FindAllStringSubmatch(currencyPatterns[p].pattern, t)

\* the value, in hundredths, of the number of a match of row p when it is
\* above 0 and below the sanity bound, commas stripped; 0 otherwise
SurvivingValue(p, sub) ==
    LET f == ParseFloat(StripCommas(sub[NumberGroupOf(p) + 1]))
    IN  IF f.ok /\ f.amount > 0 /\ f.amount < Units(SanityBound) THEN f.amount ELSE 0

\* the matches of row p in t that have a surviving value
Survivors(p, t) ==
    {j \in 1..Len(CurrencyMatches(p, t)) : SurvivingValue(p, CurrencyMatches(p, t)[j]) > 0}

\* C17: the result carries the code and symbol of the first row of the
\* currency table that has a match whose number, integer or decimal, parses
\* to a value above 0 and below 1,000,000; the amount is the largest such
\* value of that row and the raw text is the text of that match.
C17_TableOrder ==
    parsed /= <<>> =>
        \A p \in 1..Len(currencyPatterns) :
            (/\ Survivors(p, text) /= {}
             /\ \A q \in 1..(p - 1) : Survivors(q, text) = {})
                => /\ parsed[1].currency = currencyPatterns[p].currency
                   /\ parsed[1].symbol = currencyPatterns[p].symbol
                   /\ \E j \in Survivors(p, text) :
                          /\ parsed[1].amount = SurvivingValue(p, CurrencyMatches(p, text)[j])
                          /\ parsed[1].raw = CurrencyMatches(p, text)[j][1]
                          /\ \A k \in Survivors(p, text) :
                                 SurvivingValue(p, CurrencyMatches(p, text)[k]) <= parsed[1].amount

\* C18: for a text whose only amount, an integer or a number with decimals
\* below 1,000,000, carries one currency marker, the parser returns the
\* code and the symbol of that marker.
C18_OwnCurrency ==
    \A k \in 1..Len(Markers), a \in 1..Len(Amounts) :
        (parsed /= <<>> /\ text = MarkedText(k, a))
            => /\ parsed[1].currency = Markers[k].currency
               /\ parsed[1].symbol = Markers[k].symbol

\* no row of the currency table gives an amount for t, so that line 226
\* calls extractAmount
ReachesTier2(t) ==
    \A p \in 1..Len(currencyPatterns) :
        ScanCurrencyMatches(CurrencyMatches(p, t), 1,
                            [maxAmount |-> 0, rawAmount |-> <<>>]).maxAmount = 0

\* C19: for a text that reaches extractAmount and holds three decimal
\* tokens of which one alone, b, is followed by USD, EUR or GBP,
\* extractAmount returns b.
C19_CodedTokenFirst ==
    \A b \in 1..Len(CodedTokens), c \in 1..Len(Codes), at \in 1..3 :
        (parsed /= <<>> /\ text = TokenText(b, c, at) /\ ReachesTier2(text))
            => /\ extractAmount(text) = CodedTokens[b].amount
               /\ parsed[1].amount = CodedTokens[b].amount

\* C20: for a body whose only date-shaped token is a valid date written as
\* YYYY-MM-DD or as MM/DD/YYYY, and no subject, extractTransactionDate
\* returns that calendar date, not the zero time.
C20_NumericDatesRecovered ==
    \A k \in 1..Len(NumericDates) :
        (recovered /= <<>> /\ dateSubject = <<>> /\ dateBody \in NumericDateBodiesOf(k))
            => /\ ~IsZero(recovered[1])
               /\ recovered[1] = NumericDates[k].date

\* C21: for a body whose only date-shaped token is a valid date written as
\* "Mon[th] D[D], YYYY" or as "D[D] Mon[th] YYYY", with an abbreviated or a
\* full month name and a day of one or two digits, and no subject,
\* extractTransactionDate returns that calendar date.
C21_MonthNameDatesRecovered ==
    \A k \in 1..Len(MonthNameDates) :
        (recovered /= <<>> /\ dateSubject = <<>> /\ dateBody \in MonthNameDateBodiesOf(k))
            => recovered[1] = MonthNameDates[k].date

\* C22: for a body that holds two dates of one pattern family, and no
\* subject, extractTransactionDate returns the date that comes last.
C22_LastOfFamilyWins ==
    \A a, b \in 1..Len(DatedTokens) :
        (/\ recovered /= <<>>
         /\ dateSubject = <<>>
         /\ a /= b
         /\ FamilyOf[a] = FamilyOf[b]
         /\ dateBody = TwoDates(a, b))
            => recovered[1] = DatedTokens[b].date

\* C23: for a body that holds a date of one pattern family and a date of a
\* later family, in either order, and no subject, extractTransactionDate
\* returns the date of the earlier family.
C23_EarlierFamilyWins ==
    \A a, b \in 1..Len(DatedTokens) :
        (/\ recovered /= <<>>
         /\ dateSubject = <<>>
         /\ FamilyOf[a] < FamilyOf[b]
         /\ dateBody \in {TwoDates(a, b), TwoDates(b, a)})
            => recovered[1] = DatedTokens[a].date

\* C24: for a body without a date that names its year, whose last
\* month-and-day token is written with an abbreviated or a full month name
\* and a day of one or two digits, and no subject, extractTransactionDate
\* returns that month and day in the year of the day it is called on.
C24_MonthDayInCurrentYear ==
    \A b \in 1..Len(MonthDayTokens) :
        (recovered /= <<>> /\ dateSubject = <<>> /\ dateBody \in MonthDayBodiesOf(b))
            => recovered[1] = Date(TimeAt(clock).year, MonthDayTokens[b].month,
                                   MonthDayTokens[b].day)

\* the amount parser on the subject of each message of Inbox, worked out once
InboxSubjectAmount ==
    [i \in 1..Len(Inbox) |-> extractAmountWithCurrency(Inbox[i].Subject)]

\* C25: a message whose body holds no positive amount gets no transaction,
\* whatever its subject holds, and the amount, the currency, the symbol and
\* the raw amount of a transaction are those the amount parser finds in the
\* body of its message alone.
C25_AmountFromBodyOnly ==
    /\ \A i \in 1..Len(messages) :
           InboxAmount[InboxIndex(messages[i])].amount = 0
               => \A txn \in Emitted : txn.ID /= messages[i].ID
    /\ \A txn \in Emitted :
           LET a == InboxAmount[InboxOfID(txn.ID)]
           IN  /\ txn.Amount = a.amount
               /\ txn.Currency = a.currency
               /\ txn.CurrencySymbol = a.symbol
               /\ txn.RawAmount = a.raw

\* a call has returned for a batch with a message that a service matches
\* and whose only amount is in the subject, and it has returned a
\* transaction of a message whose subject holds another amount than its body
C25_Witness ==
    /\ Len(runs) > 0
    /\ \E i \in 1..Len(messages) :
           /\ SomeDomainMatches(messages[i]) \/ SomeKeywordMatches(messages[i])
           /\ InboxAmount[InboxIndex(messages[i])].amount = 0
           /\ InboxSubjectAmount[InboxIndex(messages[i])].amount > 0
    /\ \E t \in 1..Len(runs[1]) :
           LET i == InboxOfID(runs[1][t].ID)
           IN  /\ InboxSubjectAmount[i].amount > 0
               /\ InboxSubjectAmount[i].amount /= runs[1][t].Amount

(***************************************************************************)
(* ExtractTransactions on a batch and on its two parts: one extractor is   *)
(* called on A ++ B, then on A, then on B, and days may pass after the     *)
(* first call.                                                             *)
(***************************************************************************)
\* the argument of call n: the whole batch, its part A, its part B
PartOf(s, n) ==
    CASE n = 1 -> s.whole
      [] n = 2 -> SubSeq(s.whole, 1, s.at)
      [] OTHER -> SubSeq(s.whole, s.at + 1, Len(s.whole))

\* the batches with the places they can be cut at
Splits == UNION {{[whole |-> b, at |-> k] : k \in 0..Len(b)} : b \in Batches}

InitSplit ==
    /\ load = Constructed
    /\ handed = NothingHanded
    /\ login = NoLogin
    /\ calc = NoCalculate
    /\ split \in Splits
    /\ catalogFile \in CatalogFiles
    /\ tracker = loadServiceTracker(catalogFile)
    /\ messages = split.whole
    /\ idx = 0
    /\ transactions = <<>>
    /\ runs = <<>>
    /\ clock = 0
    /\ ParsersIdle

\* ExtractTransactions is called on the whole batch or on one of its parts (lines 80-81)
CallExtractPart ==
    /\ idx = 0
    /\ Len(runs) < 3
    /\ messages' = PartOf(split, Len(runs) + 1)
    /\ idx' = 1
    /\ transactions' = <<>>
    /\ UNCHANGED <<login, calc, split, load, handed, catalogFile, tracker, runs, clock,
                   text, parsed, dateBody, dateSubject, recovered>>

NextSplit == CallExtractPart \/ ExtractMessage \/ ReturnExtract \/ Tick

SpecSplit == InitSplit /\ [][NextSplit]_vars

\* every message of the batch can be matched to one service at most
OneServiceEach(batch) == \A i \in 1..Len(batch) : OneServiceAtMost(batch[i])

\* C26 as the specification states it: for a catalog in which each message
\* matches at most one service, ExtractTransactions(A ++ B) is
\* ExtractTransactions(A) ++ ExtractTransactions(B), but for the Timestamps.
C26_BatchesConcatenate ==
    (Len(runs) = 3 /\ OneServiceEach(split.whole))
        => SameRecords(runs[1], runs[2] \o runs[3])

\* C26, amended: the same when the three calls are made in one calendar year.
C26_BatchesConcatenateOneYear ==
    (/\ Len(runs) = 3
     /\ OneServiceEach(split.whole)
     /\ SameYear(runs[1], runs[2] \o runs[3]))
        => SameRecords(runs[1], runs[2] \o runs[3])

\* the three calls have returned, the calls on the parts a day after the
\* call on A ++ B and in the same year; both parts hold a message, one of
\* the two messages has a transaction and the other has none
C26_Witness ==
    /\ Len(runs) = 3
    /\ OneServiceEach(split.whole)
    /\ split.at \in 1..(Len(split.whole) - 1)
    /\ Len(runs[1]) > 0
    /\ Len(runs[1]) < Len(split.whole)
    /\ runs[1][1].Timestamp /= (runs[2] \o runs[3])[1].Timestamp
    /\ SameYear(runs[1], runs[2] \o runs[3])

(***************************************************************************)
(* gm calculate (internal/cmd/commands.go, lines 84-260).  calc holds the  *)
(* flags, the mailbox and the position of the command; the extraction      *)
(* itself is the loop of ExtractTransactions above.                        *)
(***************************************************************************)
MaxMailbox == 2

\* the search queries of lines 155-161, by their position in the list
queries == <<"receipt", "payment", "transaction", "order confirmation", "booking confirmation">>

\* Time.Before and Time.After
Before(t, u) ==
    \/ t.year < u.year
    \/ t.year = u.year /\ t.month < u.month
    \/ t.year = u.year /\ t.month = u.month /\ t.day < u.day
    \/ t.year = u.year /\ t.month = u.month /\ t.day = u.day /\ t.sec < u.sec

After(t, u) == Before(u, t)

\* strings.Split(s, "-")
RECURSIVE SplitDash(_, _)
SplitDash(s, part) ==
    IF s = <<>> THEN <<part>>
    ELSE IF Head(s) = "-" THEN <<part>> \o SplitDash(Tail(s), <<>>)
    ELSE SplitDash(Tail(s), Append(part, Head(s)))

\* parseDate (lines 405-408): midnight of the day, or an error
parseDate(dateStr) == ParseTime(<<"2006", "-", "01", "-", "02">>, dateStr)

\* monthDate.AddDate(0, 1, -1).Add(24*time.Hour - time.Nanosecond) for the
\* first day of a month (line 125): the last moment of the month.  The times
\* of the model are whole seconds, so the last second stands for it.
EndOfMonth(monthDate) ==
    [monthDate EXCEPT !.day = daysIn(monthDate.month, monthDate.year), !.sec = 86399]

\* lines 116-129: --month YYYY-MM replaces both ends of the range; a month
\* that does not parse leaves the range as it is
MonthRange(range, month) ==
    LET parts == SplitDash(month, <<>>)
        first == IF Len(parts) = 2
                 THEN parseDate(parts[1] \o <<"-">> \o parts[2] \o <<"-", "0", "1">>)
                 ELSE [ok |-> FALSE, t |-> ZeroTime]
    IN  IF month /= <<>> /\ first.ok
        THEN [range EXCEPT !.from = first.t, !.to = EndOfMonth(first.t)]
        ELSE range

\* lines 96-129: fromDate and toDate of the flags; ok is FALSE where the
\* command returns for an invalid --from or --to
DateRange(flags) ==
    LET from == IF flags.from = <<>> THEN [ok |-> TRUE, t |-> ZeroTime]
                ELSE parseDate(flags.from)
        to == IF flags.to = <<>> THEN [ok |-> TRUE, t |-> ZeroTime]
              ELSE parseDate(flags.to)
    IN  IF ~from.ok \/ ~to.ok THEN [ok |-> FALSE, from |-> ZeroTime, to |-> ZeroTime]
        ELSE MonthRange([ok |-> TRUE, from |-> from.t, to |-> to.t], flags.month)

\* lines 195-200: the transaction is kept
InRange(txDate, fromDate, toDate) ==
    /\ IsZero(fromDate) \/ ~Before(txDate, fromDate)
    /\ IsZero(toDate) \/ ~After(txDate, toDate)

\* lines 191-203: the filter by date
FilterByDate(txns, fromDate, toDate) ==
    IF IsZero(fromDate) /\ IsZero(toDate) THEN txns
    ELSE SelectSeq(txns, LAMBDA tx : InRange(tx.Date, fromDate, toDate))

\* strings.EqualFold on the currency codes of the model
EqualFold(s, t) ==
    LET upper(c) == CASE c = "usd" -> "USD" [] c = "eur" -> "EUR" [] OTHER -> c
    IN  upper(s) = upper(t)

\* lines 211-218: the filter by currency
FilterByCurrency(txns, currency) ==
    IF currency = "" THEN txns
    ELSE SelectSeq(txns, LAMBDA tx : EqualFold(tx.Currency, currency))

\* totalAmount of displayExpenseSummary (lines 283-291)
RECURSIVE totalAmount(_)
totalAmount(txns) ==
    IF txns = <<>> THEN 0 ELSE Head(txns).Amount + totalAmount(Tail(txns))

\* the flags the command is given
FlagSets ==
    {
       \* no flag
       [from |-> <<>>, to |-> <<>>, month |-> <<>>, currency |-> ""],
       \* --from 2024-03-01 --to 2024-03-01
       [from |-> <<"2", "0", "2", "4", "-", "0", "3", "-", "0", "1">>, to |-> <<"2", "0", "2", "4", "-", "0", "3", "-", "0", "1">>, month |-> <<>>, currency |-> ""],
       \* --from 2025-12-01 --to 2025-12-31
       [from |-> <<"2", "0", "2", "5", "-", "1", "2", "-", "0", "1">>, to |-> <<"2", "0", "2", "5", "-", "1", "2", "-", "3", "1">>, month |-> <<>>, currency |-> ""],
       \* --month 2025-12
       [from |-> <<>>, to |-> <<>>, month |-> <<"2", "0", "2", "5", "-", "1", "2">>, currency |-> ""],
       \* --to 2025-12-14
       [from |-> <<>>, to |-> <<"2", "0", "2", "5", "-", "1", "2", "-", "1", "4">>, month |-> <<>>, currency |-> ""],
       \* --from 03/01/2024
       [from |-> <<"0", "3", "/", "0", "1", "/", "2", "0", "2", "4">>, to |-> <<>>, month |-> <<>>, currency |-> ""],
       \* --month 2024-3
       [from |-> <<>>, to |-> <<>>, month |-> <<"2", "0", "2", "4", "-", "3">>, currency |-> ""],
       \* --from 2026-01-01 --month 2024-03
       [from |-> <<"2", "0", "2", "6", "-", "0", "1", "-", "0", "1">>, to |-> <<>>, month |-> <<"2", "0", "2", "4", "-", "0", "3">>, currency |-> ""],
       \* --currency usd
       [from |-> <<>>, to |-> <<>>, month |-> <<>>, currency |-> "usd"]
    }

\* for a message of the mailbox, the queries that find it
QuerySets == {{1}, {1, 2}}

\* The mailboxes: messages of Inbox, in the order Gmail lists them, each with
\* the queries that find it.
Mailboxes ==
    UNION {[1..Len(q) -> QuerySets] \X {q} :
              q \in {r \in IndexSeqs(Len(Inbox), MaxMailbox) :
                         \A i \in 1..(Len(r) - 1) : r[i] < r[i + 1]}}

\* GetMessages (internal/gmail/gmail.go, lines 35-65) where the listing
\* succeeds: the messages of the mailbox that the query finds
GetMessages(mailbox, query) ==
    LET found == SelectSeq([i \in 1..Len(mailbox[2]) |-> i],
                           LAMBDA i : query \in mailbox[1][i])
    IN  [k \in 1..Len(found) |-> Inbox[mailbox[2][found[k]]]]

\* line 169
AppendMessages(allMessages, found) == allMessages \o found

\* the command before it is run
Invoked(flags, mailbox) ==
    [phase |-> "invoked", flags |-> flags, mailbox |-> mailbox,
     fromDate |-> ZeroTime, toDate |-> ZeroTime, query |-> 0, allMessages |-> <<>>,
     extracted |-> <<>>, inRange |-> <<>>, shown |-> <<>>, total |-> 0, outcome |-> ""]

InitCalculate ==
    /\ load = Constructed
    /\ handed = NothingHanded
    /\ login = NoLogin
    /\ split = NoSplit
    /\ calc \in {Invoked(flags, mailbox) : flags \in FlagSets, mailbox \in Mailboxes}
    /\ catalogFile \in CatalogFiles
    /\ tracker = loadServiceTracker(catalogFile)
    /\ messages = <<>>
    /\ idx = 0
    /\ transactions = <<>>
    /\ runs = <<>>
    /\ clock = 0
    /\ ParsersIdle

\* lines 96-152: the flags are read; the token is loaded and the Gmail
\* service made
ParseFlags ==
    /\ calc.phase = "invoked"
    /\ LET range == DateRange(calc.flags)
       IN  calc' = IF range.ok
                   THEN [calc EXCEPT !.phase = "search", !.query = 1,
                                     !.fromDate = range.from, !.toDate = range.to]
                   ELSE [calc EXCEPT !.phase = "done", !.outcome = "invalid date"]
    /\ UNCHANGED <<login, split, load, handed, catalogFile, tracker, messages, idx,
                   transactions, runs, clock, text, parsed, dateBody, dateSubject, recovered>>

\* one turn of the loop of lines 163-170: the query fails and is skipped, or
\* what it finds is appended
SearchQuery ==
    /\ calc.phase = "search"
    /\ calc.query \in 1..Len(queries)
    /\ \E failed \in BOOLEAN :
           calc' = [calc EXCEPT
                       !.query = calc.query + 1,
                       !.allMessages =
                           IF failed THEN calc.allMessages
                           ELSE AppendMessages(calc.allMessages,
                                               GetMessages(calc.mailbox, calc.query))]
    /\ UNCHANGED <<login, split, load, handed, catalogFile, tracker, messages, idx,
                   transactions, runs, clock, text, parsed, dateBody, dateSubject, recovered>>

\* lines 174-188: the command returns if nothing was found, and calls
\* ExtractTransactions otherwise
ExtractFound ==
    /\ calc.phase = "search"
    /\ calc.query = Len(queries) + 1
    /\ IF calc.allMessages = <<>>
       THEN /\ calc' = [calc EXCEPT !.phase = "done", !.outcome = "no emails"]
            /\ UNCHANGED <<messages, idx, transactions>>
       ELSE /\ calc' = [calc EXCEPT !.phase = "extract"]
            /\ messages' = calc.allMessages
            /\ idx' = 1
            /\ transactions' = <<>>
    /\ UNCHANGED <<login, split, load, handed, catalogFile, tracker, runs, clock,
                   text, parsed, dateBody, dateSubject, recovered>>

\* lines 188-257: ExtractTransactions has returned; the transactions are
\* filtered by date and by currency and summed up
Summarize ==
    /\ calc.phase = "extract"
    /\ idx = Len(messages) + 1
    /\ LET inRange == FilterByDate(transactions, calc.fromDate, calc.toDate)
           shown == FilterByCurrency(inRange, calc.flags.currency)
       IN  calc' = [calc EXCEPT
                       !.phase = "done",
                       !.extracted = transactions,
                       !.inRange = inRange,
                       !.shown = shown,
                       !.total = totalAmount(shown),
                       !.outcome = IF shown = <<>> THEN "no transactions" ELSE "summary"]
    /\ idx' = 0
    /\ transactions' = <<>>
    /\ UNCHANGED <<login, split, load, handed, catalogFile, tracker, messages, runs, clock,
                   text, parsed, dateBody, dateSubject, recovered>>

NextCalculate ==
    \/ ParseFlags
    \/ SearchQuery
    \/ ExtractFound
    \/ ExtractMessage
    \/ Summarize

SpecCalculate == InitCalculate /\ [][NextCalculate]_vars

\* the days of two times compared
DayBefore(t, u) == Before([t EXCEPT !.sec = 0], [u EXCEPT !.sec = 0])

\* C27: in gm calculate no transaction id appears twice in the summarized
\* list, and a message that more than one of the five queries returns is
\* counted in the total once.
C27_NoTransactionTwice ==
    calc.phase = "done" =>
        /\ \A i, j \in 1..Len(calc.shown) :
               calc.shown[i].ID = calc.shown[j].ID => i = j
        /\ \A i \in 1..Len(Inbox) :
               Len(SelectSeq(calc.shown, LAMBDA tx : tx.ID = Inbox[i].ID)) <= 1

\* C28: in gm calculate the date filter keeps whole days at both ends: with
\* --from F --to T a transaction is kept if and only if the day of its date
\* is neither before F nor after T, whatever its time of day, and --month
\* YYYY-MM keeps the transactions that --from the first day and --to the
\* last day of that month keep.
C28_WholeDaysKept ==
    calc.phase = "done" /\ calc.outcome /= "invalid date" =>
        LET F == parseDate(calc.flags.from).t
            T == parseDate(calc.flags.to).t
            range == MonthRange([ok |-> TRUE, from |-> ZeroTime, to |-> ZeroTime],
                                calc.flags.month)
        IN  /\ (calc.flags.from /= <<>> /\ calc.flags.to /= <<>> /\ calc.flags.month = <<>>) =>
                   calc.inRange =
                       SelectSeq(calc.extracted,
                                 LAMBDA tx : ~DayBefore(tx.Date, F) /\ ~DayBefore(T, tx.Date))
            /\ ~IsZero(range.from) =>
                   calc.inRange =
                       FilterByDate(calc.extracted, range.from, [range.to EXCEPT !.sec = 0])

\* C29: loading keeps every service definition of the file: the catalog, and
\* what GetAllServices returns, hold as many services as the file has
\* entries, and GetServiceByID(id) returns an entry listed under that id,
\* also when two entries share an id or an entry has the empty id.
C29_EveryDefinitionKept ==
    load.result = "extractor" =>
        /\ Cardinality(DOMAIN tracker) = Len(catalogFile)
        /\ handed.fn = "GetAllServices" => Len(handed.value) = Len(catalogFile)
        /\ handed.fn = "GetServiceByID" =>
               IF \E k \in 1..Len(catalogFile) : catalogFile[k].ID = handed.arg
               THEN \E k \in 1..Len(catalogFile) :
                        /\ catalogFile[k].ID = handed.arg
                        /\ handed.value = <<catalogFile[k]>>
               ELSE handed.value = <<>>

(***************************************************************************)
(* The OAuth login (internal/auth/auth.go, lines 50-155).  requestNewToken *)
(* serves the callback on port 8080; every request is handled in a         *)
(* goroutine of its own, which writes its response and then sends on one   *)
(* of two unbuffered channels; requestNewToken receives once, in a select. *)
(* Its callers pass context.Background(), which is never done.             *)
(***************************************************************************)
MaxRequests == 3

\* the query parameter code of a request: "" where there is none
RequestCodes == {"", "4/abc"}

\* the requests that browsers send to the callback server
RequestLists ==
    UNION {[1..n -> RequestCodes] : n \in 0..MaxRequests}

\* GetToken is called: a cached token or none, port 8080 free or in use, the
\* outcomes of Exchange and of saveTokenToFile, and the requests to come, none
\* of them sent yet
LoginCalled(cached, port, exchange, save, requests) ==
    [phase |-> "called", cached |-> cached, port |-> port, exchange |-> exchange,
     save |-> save, requests |-> requests,
     handler |-> [r \in 1..Len(requests) |-> "unsent"],
     result |-> "", err |-> ""]

InitLogin ==
    /\ load = Constructed
    /\ handed = NothingHanded
    /\ calc = NoCalculate
    /\ split = NoSplit
    /\ login \in {LoginCalled(cached, port, exchange, save, requests) :
                     cached \in {"valid", "none"}, port \in {"free", "in use"},
                     exchange \in {"ok", "failed"}, save \in {"ok", "failed"},
                     requests \in RequestLists}
    /\ catalogFile = <<>>
    /\ tracker = loadServiceTracker(<<>>)
    /\ messages = <<>>
    /\ idx = 0
    /\ transactions = <<>>
    /\ runs = <<>>
    /\ clock = 0
    /\ ParsersIdle

\* GetToken (lines 50-61) and requestNewToken up to its select (lines
\* 64-130): the cached token is returned, or the listener cannot be made, or
\* the server is started and the browser opened
CallGetToken ==
    /\ login.phase = "called"
    /\ login' = IF login.cached = "valid"
                THEN [login EXCEPT !.phase = "returned", !.result = "cached token"]
                ELSE IF login.port = "in use"
                THEN [login EXCEPT !.phase = "returned", !.err = "listen"]
                ELSE [login EXCEPT !.phase = "select"]
    /\ UNCHANGED <<calc, split, load, handed, catalogFile, tracker, messages, idx,
                   transactions, runs, clock, text, parsed, dateBody, dateSubject, recovered>>

\* the handler of lines 80-110 for a request r, up to its send: a request
\* without a code is answered 400 and offers an error on errChan, a request
\* with a code is answered with the page and offers the code on codeChan
Handle ==
    \E r \in 1..Len(login.requests) :
        /\ login.phase = "select"
        /\ login.handler[r] = "unsent"
        /\ login' = [login EXCEPT !.handler[r] =
                        IF login.requests[r] = "" THEN "at errChan" ELSE "at codeChan"]
        /\ UNCHANGED <<calc, split, load, handed, catalogFile, tracker, messages, idx,
                       transactions, runs, clock, text, parsed, dateBody, dateSubject, recovered>>

\* a request r is sent after listener.Close(): the connection is refused
Refuse ==
    \E r \in 1..Len(login.requests) :
        /\ login.phase = "returned"
        /\ login.handler[r] = "unsent"
        /\ login' = [login EXCEPT !.handler[r] = "refused"]
        /\ UNCHANGED <<calc, split, load, handed, catalogFile, tracker, messages, idx,
                       transactions, runs, clock, text, parsed, dateBody, dateSubject, recovered>>

\* lines 132-146: the select receives the code of a handler; the listener is
\* closed, the code exchanged and the token saved
ReceiveCode ==
    \E r \in 1..Len(login.requests) :
        /\ login.phase = "select"
        /\ login.handler[r] = "at codeChan"
        /\ login' = [login EXCEPT
                        !.phase = "returned",
                        !.handler[r] = "returned",
                        !.result = IF login.exchange = "ok" /\ login.save = "ok"
                                   THEN "new token" ELSE "",
                        !.err = IF login.exchange /= "ok" THEN "exchange"
                                ELSE IF login.save /= "ok" THEN "save" ELSE ""]
        /\ UNCHANGED <<calc, split, load, handed, catalogFile, tracker, messages, idx,
                       transactions, runs, clock, text, parsed, dateBody, dateSubject, recovered>>

\* lines 147-149: the select receives the error of a handler; the listener
\* is closed and the error returned
ReceiveError ==
    \E r \in 1..Len(login.requests) :
        /\ login.phase = "select"
        /\ login.handler[r] = "at errChan"
        /\ login' = [login EXCEPT !.phase = "returned", !.handler[r] = "returned",
                                  !.err = "no authorization code received"]
        /\ UNCHANGED <<calc, split, load, handed, catalogFile, tracker, messages, idx,
                       transactions, runs, clock, text, parsed, dateBody, dateSubject, recovered>>

NextLogin == CallGetToken \/ Handle \/ Refuse \/ ReceiveCode \/ ReceiveError

SpecLogin == InitLogin /\ [][NextLogin]_vars

\* C30: the login succeeds whenever a request with a code reaches the
\* callback server: if requestNewToken has returned, the handler of some
\* request has had a non-empty code to hand over, and Exchange and
\* saveTokenToFile succeed, then the token was returned, whatever requests
\* without a code reached the server before.
C30_LoginSucceeds ==
    (/\ login.phase = "returned"
     /\ login.cached = "none"
     /\ login.exchange = "ok"
     /\ login.save = "ok"
     /\ \E r \in 1..Len(login.requests) :
            login.handler[r] \in {"at codeChan", "returned"} /\ login.requests[r] /= "")
        => login.result = "new token"

====
